---------------------------- MODULE Spec2Model ----------------------------
(***************************************************************************)
(* A model of the PNS report parser of snow-plots (modules/2_parser.py):   *)
(* the text extractors, working character by character on the lines of a  *)
(* bulletin, the two parsing templates, and process_station with the       *)
(* archive of per-station output files it maintains.                       *)
(*                                                                         *)
(* Text is a TLA+ string.  A file name of the archive is the triple        *)
(* <<kind, issuance_date, issuance_time>> of the three parts the code      *)
(* formats into "<kind>_<date>_<time>.csv".                                *)
(***************************************************************************)
EXTENDS Integers, Sequences, FiniteSets, TLC

VARIABLES
    raw,        \* raw[s]: data/<s>/raw_data.csv: missing, unreadable or its lines
    archive,    \* archive[s]: the output files of data/<s>/, file name |-> content
    last,       \* the latest process_station call: its station, what it logged, the
                \* key it parsed, and whether it was a rerun on an unchanged raw file
    processed,  \* processed[s]: raw[s] has been through process_station as it is
    input,      \* the argument of the pure function under study
    pc,         \* position of a function-level specification: "start" or "done"
    out         \* the value the function returned

vars == <<raw, archive, last, processed, input, pc, out>>

(***************************************************************************)
(* Python's str and re primitives the parser uses.                         *)
(***************************************************************************)
\* a local variable: F(v), with v evaluated once
With(v, F(_)) == CHOOSE r \in {F(x) : x \in {v}} : TRUE

\* the least element of a set of positions, 0 when there is none
First(S) == With(S, LAMBDA T : IF T = {} THEN 0 ELSE CHOOSE a \in T : \A b \in T : a <= b)

\* s[i-1:j] of Python: the characters i..j of s that exist
Sub(s, i, j) ==
    LET a == IF i < 1 THEN 1 ELSE i
        b == IF j > Len(s) THEN Len(s) ELSE j
    IN  IF a > b THEN "" ELSE SubSeq(s, a, b)

At(s, i) == IF 1 <= i /\ i <= Len(s) THEN SubSeq(s, i, i) ELSE ""

IsDigit(c) == c \in {"0", "1", "2", "3", "4", "5", "6", "7", "8", "9"}

\* \s of re, on the whitespace a line of splitlines() can still hold
IsSpace(c) == c \in {" ", "\t"}

\* pat in s
Contains(s, pat) ==
    \E i \in 1..(Len(s) - Len(pat) + 1) : Sub(s, i, i + Len(pat) - 1) = pat

\* s.startswith(pat)
StartsWith(s, pat) == Len(s) >= Len(pat) /\ Sub(s, 1, Len(pat)) = pat

\* length of the run of digits (of whitespace) of s that starts at position i
RECURSIVE DigitRun(_, _)
DigitRun(s, i) == IF IsDigit(At(s, i)) THEN 1 + DigitRun(s, i + 1) ELSE 0

RECURSIVE SpaceRun(_, _)
SpaceRun(s, i) == IF IsSpace(At(s, i)) THEN 1 + SpaceRun(s, i + 1) ELSE 0

\* length of the run of whitespace of s that ends at position i
RECURSIVE SpaceRunBack(_, _)
SpaceRunBack(s, i) == IF IsSpace(At(s, i)) THEN 1 + SpaceRunBack(s, i - 1) ELSE 0

\* s.strip()
Strip(s) == Sub(s, 1 + SpaceRun(s, 1), Len(s) - SpaceRunBack(s, Len(s)))

\* s.replace(" ", "") from position i on
RECURSIVE RemoveSpacesFrom(_, _)
RemoveSpacesFrom(s, i) ==
    IF i > Len(s) THEN ""
    ELSE (IF At(s, i) = " " THEN "" ELSE At(s, i)) \o RemoveSpacesFrom(s, i + 1)

\* s.replace(" ", "")
RemoveSpaces(s) == RemoveSpacesFrom(s, 1)

\* "".join(lines)
RECURSIVE Join(_)
Join(ls) == IF ls = <<>> THEN "" ELSE Head(ls) \o Join(Tail(ls))

DigitVal(c) == CHOOSE d \in 0..9 : At("0123456789", d + 1) = c

\* int() of the first n characters of s, decimal digits
RECURSIVE IntOfPrefix(_, _)
IntOfPrefix(s, n) == IF n = 0 THEN 0 ELSE 10 * IntOfPrefix(s, n - 1) + DigitVal(At(s, n))

\* int(s) of a string of decimal digits
IntOf(s) == IntOfPrefix(s, Len(s))

\* n written in decimal, zero-padded to width w (%02d, %04d)
RECURSIVE Pad(_, _)
Pad(n, w) == IF w = 0 THEN "" ELSE Pad(n \div 10, w - 1) \o At("0123456789", (n % 10) + 1)

(***************************************************************************)
(* ISSUANCE_PATTERN and extract_issuance_timestamp.                        *)
(***************************************************************************)
MonthNames ==
    <<"Jan", "Feb", "Mar", "Apr", "May", "Jun", "Jul", "Aug", "Sep", "Oct", "Nov", "Dec">>

UNKNOWN_DATE == "unknown_date"
UNKNOWN_TIME == "unknown_time"

\* (\d{1,4}\s?[AP]M) at position i: the position after it, or 0.  The token that
\* follows the digits is no digit, so the digits are the whole run from i.
TimeTokenEnd(s, i) ==
    With(DigitRun(s, i), LAMBDA r :
        With(IF IsSpace(At(s, i + r)) THEN i + r + 1 ELSE i + r, LAMBDA p :
            IF r >= 1 /\ r <= 4 /\ At(s, p) \in {"A", "P"} /\ At(s, p + 1) = "M"
            THEN p + 2 ELSE 0))

\* (Jan|...|Dec)\s+(\d{1,2})\s+(\d{4}) at position j: the groups, or no match.
\* Each \s+ is followed by a digit and the day by whitespace, so each run is whole.
DateTokensAt(s, j) ==
    IF ~(j + 2 <= Len(s) /\ \E m \in 1..12 : Sub(s, j, j + 2) = MonthNames[m])
    THEN [matched |-> FALSE]
    ELSE With(j + 3 + SpaceRun(s, j + 3), LAMBDA d :
         With(DigitRun(s, d), LAMBDA r :
         With(d + r + SpaceRun(s, d + r), LAMBDA y :
            IF d > j + 3 /\ r \in {1, 2} /\ y > d + r /\ DigitRun(s, y) >= 4
            THEN [matched |-> TRUE, month |-> Sub(s, j, j + 2),
                  day |-> Sub(s, d, d + r - 1), year |-> Sub(s, y, y + 3)]
            ELSE [matched |-> FALSE])))

\* whether ISSUANCE_PATTERN matches from position i of line
IssuanceMatchesAt(line, i) ==
    With(TimeTokenEnd(line, i), LAMBDA e :
        e # 0 /\ \E j \in e..Len(line) : DateTokensAt(line, j).matched)

\* ISSUANCE_PATTERN.search(line): the leftmost start, then the nearest date (.*?)
IssuanceSearch(line) ==
    With(First({i \in 1..Len(line) : IssuanceMatchesAt(line, i)}), LAMBDA i :
        IF i = 0 THEN [matched |-> FALSE]
        ELSE With(TimeTokenEnd(line, i), LAMBDA e :
             With(DateTokensAt(line,
                      First({j \in e..Len(line) : DateTokensAt(line, j).matched})), LAMBDA g :
                [matched |-> TRUE, time |-> Sub(line, i, e - 1),
                 month |-> g.month, day |-> g.day, year |-> g.year])))

IsLeap(y) == y % 4 = 0 /\ (y % 100 # 0 \/ y % 400 = 0)

DaysInMonth(m, y) ==
    IF m = 2 THEN (IF IsLeap(y) THEN 29 ELSE 28)
    ELSE IF m \in {4, 6, 9, 11} THEN 30 ELSE 31

\* the date y-m-d as strftime("%Y-%m-%d") writes it (years from 1000 on)
IsoDate(y, m, d) == Pad(y, 4) \o "-" \o Pad(m, 2) \o "-" \o Pad(d, 2)

\* datetime.strptime(f"{month} {day} {year}", "%b %d %Y").strftime("%Y-%m-%d"),
\* or UNKNOWN_DATE where strptime raises
ParseIssuanceDate(month, day, year) ==
    With(<<CHOOSE k \in 1..12 : MonthNames[k] = month, IntOf(day), IntOf(year)>>, LAMBDA t :
        IF t[3] >= 1 /\ t[2] >= 1 /\ t[2] <= DaysInMonth(t[1], t[3])
        THEN IsoDate(t[3], t[1], t[2])
        ELSE UNKNOWN_DATE)

\* group(1).strip().replace(" ", "")
NormalizeTime(t) == RemoveSpaces(Strip(t))

\* extract_issuance_timestamp with a fault: the fallback has no time sentinel
RECURSIVE extract_issuance_timestamp_no_time(_)
extract_issuance_timestamp_no_time(lines) ==
    IF lines = <<>> THEN <<UNKNOWN_DATE, "">>
    ELSE With(IssuanceSearch(Head(lines)), LAMBDA m :
            IF m.matched
            THEN <<ParseIssuanceDate(m.month, m.day, m.year), NormalizeTime(m.time)>>
            ELSE extract_issuance_timestamp_no_time(Tail(lines)))

RECURSIVE extract_issuance_timestamp(_)
extract_issuance_timestamp(lines) ==
    IF lines = <<>> THEN <<UNKNOWN_DATE, UNKNOWN_TIME>>
    ELSE With(IssuanceSearch(Head(lines)), LAMBDA m :
            IF m.matched
            THEN <<ParseIssuanceDate(m.month, m.day, m.year), NormalizeTime(m.time)>>
            ELSE extract_issuance_timestamp(Tail(lines)))

(***************************************************************************)
(* Header and metadata extraction.  An optional value is <<>> (None) or    *)
(* <<v>>.                                                                  *)
(***************************************************************************)
None == <<>>
Some(v) == <<v>>

PUBLIC_INFO == "Public Information Statement"
NWS == "National Weather Service"

IsUpper(c) == c # "" /\ Contains("ABCDEFGHIJKLMNOPQRSTUVWXYZ", c)

\* extract_header_metadata with a fault: the line of the title is appended
\* before the loop ends
RECURSIVE extract_header_metadata_through_title(_)
extract_header_metadata_through_title(lines) ==
    IF lines = <<>> THEN <<>>
    ELSE IF Contains(Head(lines), PUBLIC_INFO) THEN <<Strip(Head(lines))>>
    ELSE <<Strip(Head(lines))>> \o extract_header_metadata_through_title(Tail(lines))

RECURSIVE extract_header_metadata(_)
extract_header_metadata(lines) ==
    IF lines = <<>> \/ Contains(Head(lines), PUBLIC_INFO) THEN <<>>
    ELSE <<Strip(Head(lines))>> \o extract_header_metadata(Tail(lines))

\* NOUS_PATTERN.search(s): ^(NOUS\d{2}\s[A-Z]{3,4})
NousSearch(s) ==
    IF /\ StartsWith(s, "NOUS") /\ IsDigit(At(s, 5)) /\ IsDigit(At(s, 6))
       /\ IsSpace(At(s, 7))
       /\ IsUpper(At(s, 8)) /\ IsUpper(At(s, 9)) /\ IsUpper(At(s, 10))
    THEN Some(Sub(s, 1, IF IsUpper(At(s, 11)) THEN 11 ELSE 10))
    ELSE None

\* CTZ_PATTERN.search(s): (CTZ\d{3}>\d{3}.*)
CtzSearch(s) ==
    With(First({i \in 1..Len(s) :
                    /\ Sub(s, i, i + 2) = "CTZ" /\ DigitRun(s, i + 3) >= 3
                    /\ At(s, i + 6) = ">" /\ DigitRun(s, i + 7) >= 3}), LAMBDA i :
        IF i = 0 THEN None ELSE Some(Sub(s, i, Len(s))))

\* SIX_DIGIT_PATTERN.search(s): (\d{6})
SixDigitSearch(s) ==
    With(First({i \in 1..Len(s) : DigitRun(s, i) >= 6}), LAMBDA i :
        IF i = 0 THEN None ELSE Some(Sub(s, i, i + 5)))

\* datetime.strptime(six, "%y%m%d").strftime("%Y-%m-%d"); None where it raises
\* (the field keeps its initial None)
ParseSixDigitDate(six) ==
    With(<<IntOf(Sub(six, 1, 2)), IntOf(Sub(six, 3, 4)), IntOf(Sub(six, 5, 6))>>, LAMBDA t :
        With(IF t[1] <= 68 THEN 2000 + t[1] ELSE 1900 + t[1], LAMBDA y :
            IF t[2] >= 1 /\ t[2] <= 12 /\ t[3] >= 1 /\ t[3] <= DaysInMonth(t[2], y)
            THEN Some(IsoDate(y, t[2], t[3]))
            ELSE None))

\* re.match(r"\d{3,4}\s[AP]M\s", line)
NwsTimeMatch(line) ==
    With(DigitRun(line, 1), LAMBDA r :
        /\ r \in {3, 4} /\ IsSpace(At(line, r + 1))
        /\ At(line, r + 2) \in {"A", "P"} /\ At(line, r + 3) = "M"
        /\ IsSpace(At(line, r + 4)))

\* MetadataScan with a fault: the line after the office line is read without
\* the test that it exists, and the IndexError ends the extraction
RECURSIVE MetadataScanUnguarded(_, _, _)
MetadataScanUnguarded(lines, i, md) ==
    IF i > Len(lines) THEN md
    ELSE With(lines[i], LAMBDA line :
         With(IF Contains(line, PUBLIC_INFO)
              THEN [md EXCEPT !.public_info = Some(Strip(line))] ELSE md, LAMBDA m1 :
            IF Contains(line, NWS) /\ i + 1 > Len(lines) THEN [raised |-> "IndexError"]
            ELSE
         With(IF Contains(line, NWS)
              THEN [m1 EXCEPT !.nws_office = Some(Strip(lines[i + 1]))]
              ELSE m1, LAMBDA m2 :
         With(IF NwsTimeMatch(line)
              THEN [m2 EXCEPT !.nws_time = Some(Strip(line))] ELSE m2, LAMBDA m3 :
            MetadataScanUnguarded(lines, i + 1, m3)))))

\* the loop of extract_metadata over lines i..Len(lines), from the record md
RECURSIVE MetadataScan(_, _, _)
MetadataScan(lines, i, md) ==
    IF i > Len(lines) THEN md
    ELSE With(lines[i], LAMBDA line :
         With(IF Contains(line, PUBLIC_INFO)
              THEN [md EXCEPT !.public_info = Some(Strip(line))] ELSE md, LAMBDA m1 :
         With(IF Contains(line, NWS)
              THEN [m1 EXCEPT !.nws_office =
                       IF i + 1 <= Len(lines) THEN Some(Strip(lines[i + 1])) ELSE None]
              ELSE m1, LAMBDA m2 :
         With(IF NwsTimeMatch(line)
              THEN [m2 EXCEPT !.nws_time = Some(Strip(line))] ELSE m2, LAMBDA m3 :
            MetadataScan(lines, i + 1, m3)))))

extract_metadata(lines) ==
    With(IF lines = <<>> THEN None ELSE SixDigitSearch(lines[1]), LAMBDA six :
    With([issuance_code |-> IF lines = <<>> THEN None ELSE NousSearch(lines[1]),
          region_codes  |-> IF lines = <<>> THEN None ELSE CtzSearch(lines[1]),
          timestamp     |-> IF six = None THEN None ELSE ParseSixDigitDate(six[1]),
          public_info   |-> None,
          nws_office    |-> None,
          nws_time      |-> None], LAMBDA md0 :
        MetadataScan(lines, 1, md0)))

\* index of the first line of lines[i..] that starts with pat, or 0
RECURSIVE FirstStartingWith(_, _, _)
FirstStartingWith(lines, pat, i) ==
    IF i > Len(lines) THEN 0
    ELSE IF StartsWith(lines[i], pat) THEN i
    ELSE FirstStartingWith(lines, pat, i + 1)

\* index of the first line of lines[j..] that is not blank, or Len(lines) + 1
RECURSIVE SkipBlank(_, _)
SkipBlank(lines, j) ==
    IF j <= Len(lines) /\ Strip(lines[j]) = "" THEN SkipBlank(lines, j + 1) ELSE j

extract_alternative_metadata(lines) ==
    With(FirstStartingWith(lines, "NOUS", 1), LAMBDA idx :
    With(FirstStartingWith(lines, NWS, 1), LAMBDA i :
    With(SkipBlank(lines, i + 1), LAMBDA j :
        [issuance_code |-> IF idx = 0 THEN None ELSE Some(Strip(lines[idx])),
         nws_office    |-> IF i = 0 THEN None ELSE Some(Strip(lines[i])),
         nws_time      |-> IF i # 0 /\ j <= Len(lines) THEN Some(Strip(lines[j])) ELSE None,
         product       |-> IF idx # 0 /\ idx + 1 <= Len(lines)
                           THEN Some(Strip(lines[idx + 1])) ELSE None])))

(***************************************************************************)
(* Structured observations: csv.reader on each line, then the field map.   *)
(***************************************************************************)
\* length of the run of quote characters of s that starts at position i
RECURSIVE QuoteRun(_, _)
QuoteRun(s, i) == IF At(s, i) = "\"" THEN 1 + QuoteRun(s, i + 1) ELSE 0

\* a quoted field's text from position i on, each doubled quote read as one
RECURSIVE UnescapeFrom(_, _)
UnescapeFrom(s, i) ==
    IF i > Len(s) THEN ""
    ELSE IF At(s, i) = "\"" THEN "\"" \o UnescapeFrom(s, i + 2)
    ELSE At(s, i) \o UnescapeFrom(s, i + 1)

Unescape(s) == UnescapeFrom(s, 1)

\* position of the first comma of s at or after i, or Len(s) + 1
NextComma(s, i) ==
    With(First({c \in i..Len(s) : At(s, c) = ","}), LAMBDA c :
        IF c = 0 THEN Len(s) + 1 ELSE c)

\* position of the quote that closes the quoted field opened at position i of
\* s, the first quote after it that is not doubled, or 0
ClosingQuote(s, i) ==
    With(First({q \in (i + 1)..Len(s) :
                    /\ At(s, q) = "\"" /\ (q = i + 1 \/ At(s, q - 1) # "\"")
                    /\ QuoteRun(s, q) % 2 = 1}), LAMBDA q :
        IF q = 0 THEN 0 ELSE q + QuoteRun(s, q) - 1)

\* csv.reader (excel dialect, not strict) from position i of s, where a field
\* starts: a field that opens with a quote runs to its closing quote, and what
\* follows that quote up to the comma is kept as it is
RECURSIVE CsvFields(_, _)
CsvFields(s, i) ==
    IF At(s, i) = "\""
    THEN With(ClosingQuote(s, i), LAMBDA close :
            IF close = 0 THEN <<Unescape(Sub(s, i + 1, Len(s)))>>
            ELSE With(NextComma(s, close + 1), LAMBDA c :
                 With(Unescape(Sub(s, i + 1, close - 1)) \o Sub(s, close + 1, c - 1),
                      LAMBDA field :
                    IF c > Len(s) THEN <<field>> ELSE <<field>> \o CsvFields(s, c + 1))))
    ELSE With(NextComma(s, i), LAMBDA c :
            IF c > Len(s) THEN <<Sub(s, i, c - 1)>>
            ELSE <<Sub(s, i, c - 1)>> \o CsvFields(s, c + 1))

\* next(csv.reader([s])): an empty line is a row of no fields
CsvRow(s) == IF s = "" THEN <<>> ELSE CsvFields(s, 1)

MIN_FIELDS == 14

\* s without its leading zeros but the last (without its trailing zeros)
StripZerosLeft(s) ==
    With(First({i \in 1..Len(s) : At(s, i) # "0" \/ i = Len(s)}), LAMBDA i : Sub(s, i, Len(s)))

StripZerosRight(s) ==
    With(First({n \in 0..Len(s) : \A k \in (n + 1)..Len(s) : At(s, k) = "0"}), LAMBDA n :
        Sub(s, 1, n))

\* float(s) on decimal numerals: [ok |-> FALSE] where it raises ValueError, else
\* the number as sign, integer digits and fraction digits (2 and 2.0 are equal)
ParseFloat(s) ==
    With(Strip(s), LAMBDA t :
    With(IF At(t, 1) \in {"+", "-"} THEN 1 ELSE 0, LAMBDA sgn :
    With(DigitRun(t, sgn + 1), LAMBDA ip :
    With(IF At(t, sgn + ip + 1) = "." THEN 1 ELSE 0, LAMBDA dot :
    With(IF dot = 1 THEN DigitRun(t, sgn + ip + 2) ELSE 0, LAMBDA fp :
        IF ip + fp >= 1 /\ sgn + ip + dot + fp = Len(t)
        THEN [ok |-> TRUE,
              neg |-> At(t, 1) = "-",
              int |-> IF ip = 0 THEN "0" ELSE StripZerosLeft(Sub(t, sgn + 1, sgn + ip)),
              frac |-> StripZerosRight(Sub(t, sgn + ip + 2, sgn + ip + 1 + fp))]
        ELSE [ok |-> FALSE, neg |-> FALSE, int |-> "", frac |-> ""])))))

\* float(x) if x else None
OptFloat(x) ==
    IF x = "" THEN None
    ELSE With(ParseFloat(x), LAMBDA f : Some([neg |-> f.neg, int |-> f.int, frac |-> f.frac]))

FloatRaises(x) == x # "" /\ ~ParseFloat(x).ok

UpperChar(c) ==
    With(First({k \in 1..26 : At("abcdefghijklmnopqrstuvwxyz", k) = c}), LAMBDA k :
        IF k = 0 THEN c ELSE At("ABCDEFGHIJKLMNOPQRSTUVWXYZ", k))

\* s.upper() from position i on
RECURSIVE UpperFrom(_, _)
UpperFrom(s, i) == IF i > Len(s) THEN "" ELSE UpperChar(At(s, i)) \o UpperFrom(s, i + 1)

\* s.upper()
Upper(s) == UpperFrom(s, 1)

\* ObservationOfLine with a fault: a row of 13 fields is accepted
ObservationOfLine13(line) ==
    With(CsvRow(Strip(line)), LAMBDA row :
        IF Len(row) < 13 THEN <<>>
        ELSE IF FloatRaises(row[8]) \/ FloatRaises(row[9]) \/ FloatRaises(row[11]) THEN <<>>
        ELSE << [date        |-> row[1],
                 time        |-> row[2],
                 state       |-> row[3],
                 county      |-> row[4],
                 city        |-> row[5],
                 latitude    |-> OptFloat(row[8]),
                 longitude   |-> OptFloat(row[9]),
                 type        |-> IF row[10] # "" THEN Upper(Strip(row[10])) ELSE "UNKNOWN",
                 value       |-> OptFloat(row[11]),
                 unit        |-> IF row[12] # "" THEN row[12] ELSE "UNKNOWN",
                 source      |-> IF row[13] # "" THEN row[13] ELSE "UNKNOWN",
                 description |-> IF Len(row) > 13 THEN row[14] ELSE "UNKNOWN"] >>)

\* the body of extract_observations' loop for one line: the observations it
\* appends, <<>> when the row is short or an exception is caught
ObservationOfLine(line) ==
    With(CsvRow(Strip(line)), LAMBDA row :
        IF Len(row) < MIN_FIELDS THEN <<>>
        ELSE IF FloatRaises(row[8]) \/ FloatRaises(row[9]) \/ FloatRaises(row[11]) THEN <<>>
        ELSE << [date        |-> row[1],
                 time        |-> row[2],
                 state       |-> row[3],
                 county      |-> row[4],
                 city        |-> row[5],
                 latitude    |-> OptFloat(row[8]),
                 longitude   |-> OptFloat(row[9]),
                 type        |-> IF row[10] # "" THEN Upper(Strip(row[10])) ELSE "UNKNOWN",
                 value       |-> OptFloat(row[11]),
                 unit        |-> IF row[12] # "" THEN row[12] ELSE "UNKNOWN",
                 source      |-> IF row[13] # "" THEN row[13] ELSE "UNKNOWN",
                 description |-> IF Len(row) > 13 THEN row[14] ELSE "UNKNOWN"] >>)

\* the loop body raises on this line: a row of 14 fields or more one of whose
\* numeric fields float() rejects (caught by the except of the loop)
LineRaises(line) ==
    With(CsvRow(Strip(line)), LAMBDA row :
        /\ Len(row) >= MIN_FIELDS
        /\ (FloatRaises(row[8]) \/ FloatRaises(row[9]) \/ FloatRaises(row[11])))

\* extract_observations with a fault: the try encloses the loop, so the first
\* line that raises ends the extraction
RECURSIVE extract_observations_abort(_)
extract_observations_abort(lines) ==
    IF lines = <<>> \/ LineRaises(Head(lines)) THEN <<>>
    ELSE ObservationOfLine(Head(lines)) \o extract_observations_abort(Tail(lines))

RECURSIVE extract_observations(_)
extract_observations(lines) ==
    IF lines = <<>> THEN <<>>
    ELSE ObservationOfLine(Head(lines)) \o extract_observations(Tail(lines))

(***************************************************************************)
(* parse_pns_data.extract_observations: the same rows, read only after the *)
(* **METADATA** line, and exact duplicates dropped through a DataFrame.    *)
(***************************************************************************)
\* the body of the loop of parse_pns_data.extract_observations for one line
\* inside the metadata section (type is neither trimmed nor uppercased)
PnsObservationOfLine(line) ==
    IF Strip(line) = "" THEN <<>>
    ELSE With(CsvRow(Strip(line)), LAMBDA row :
        IF Len(row) < MIN_FIELDS THEN <<>>
        ELSE IF FloatRaises(row[8]) \/ FloatRaises(row[9]) \/ FloatRaises(row[11]) THEN <<>>
        ELSE << [date        |-> row[1],
                 time        |-> row[2],
                 state       |-> row[3],
                 county      |-> row[4],
                 city        |-> row[5],
                 latitude    |-> OptFloat(row[8]),
                 longitude   |-> OptFloat(row[9]),
                 type        |-> IF row[10] # "" THEN row[10] ELSE "UNKNOWN",
                 value       |-> OptFloat(row[11]),
                 unit        |-> IF row[12] # "" THEN row[12] ELSE "UNKNOWN",
                 source      |-> IF row[13] # "" THEN row[13] ELSE "UNKNOWN",
                 description |-> IF Len(row) > 13 THEN row[14] ELSE "UNKNOWN"] >>)

\* the observations list of parse_pns_data.extract_observations before the
\* deduplication step: the loop from line i on
RECURSIVE PnsObservations(_, _, _)
PnsObservations(text, i, in_metadata_section) ==
    IF i > Len(text) THEN <<>>
    ELSE IF Contains(text[i], "**METADATA**") THEN PnsObservations(text, i + 1, TRUE)
    ELSE (IF in_metadata_section THEN PnsObservationOfLine(text[i]) ELSE <<>>)
         \o PnsObservations(text, i + 1, in_metadata_section)

NumberColumns == {"latitude", "longitude", "value"}

\* the missing value of a float64 column
NaN == Some([neg |-> FALSE, int |-> "nan", frac |-> ""])

\* pd.DataFrame(observations): a number column that holds a number is float64
\* and holds NaN where the observation has None
DataFrame(observations) ==
    [i \in 1..Len(observations) |->
        [k \in DOMAIN observations[i] |->
            IF /\ k \in NumberColumns
               /\ observations[i][k] = None
               /\ \E j \in 1..Len(observations) : observations[j][k] # None
            THEN NaN
            ELSE observations[i][k]]]

\* drop_duplicates with a fault: keep="last"
RECURSIVE drop_duplicates_keep_last(_, _)
drop_duplicates_keep_last(frame, i) ==
    IF i > Len(frame) THEN <<>>
    ELSE (IF \E j \in (i + 1)..Len(frame) : frame[j] = frame[i] THEN <<>> ELSE <<frame[i]>>)
         \o drop_duplicates_keep_last(frame, i + 1)

\* DataFrame.drop_duplicates() (keep="first") from row i on: a row equal in
\* every column to an earlier row is dropped
RECURSIVE drop_duplicates(_, _)
drop_duplicates(frame, i) ==
    IF i > Len(frame) THEN <<>>
    ELSE (IF \E j \in 1..(i - 1) : frame[j] = frame[i] THEN <<>> ELSE <<frame[i]>>)
         \o drop_duplicates(frame, i + 1)

\* parse_pns_data.extract_observations(text)
pns_extract_observations(text) ==
    With(PnsObservations(text, 1, FALSE), LAMBDA observations :
        drop_duplicates(DataFrame(observations), 1))

(***************************************************************************)
(* Alternative observations: the whitespace-aligned table.                 *)
(***************************************************************************)
\* re.split(r'\s{2,}', s) from position i of s on
RECURSIVE SplitWideFrom(_, _)
SplitWideFrom(s, i) ==
    With(First({c \in i..Len(s) : SpaceRun(s, c) >= 2}), LAMBDA c :
        IF c = 0 THEN <<Sub(s, i, Len(s))>>
        ELSE <<Sub(s, i, c - 1)>> \o SplitWideFrom(s, c + SpaceRun(s, c)))

\* re.split(r'\s{2,}', s)
SplitWide(s) == SplitWideFrom(s, 1)

IsTableHeader(line) ==
    Contains(line, "Location") /\ (Contains(line, "Temp") \/ Contains(line, "Amount"))

RECURSIVE FirstTableHeader(_, _)
FirstTableHeader(lines, i) ==
    IF i > Len(lines) THEN 0
    ELSE IF IsTableHeader(lines[i]) THEN i
    ELSE FirstTableHeader(lines, i + 1)

\* ZipDict with a fault: a repeated header keeps its first column
ZipDictFirst(headers, columns) ==
    [h \in {headers[k] : k \in 1..Len(headers)} |->
        columns[CHOOSE k \in 1..Len(headers) :
                    /\ headers[k] = h
                    /\ \A l \in 1..Len(headers) : headers[l] = h => k <= l]]

\* dict(zip(headers, columns)): a repeated header keeps its last column
ZipDict(headers, columns) ==
    [h \in {headers[k] : k \in 1..Len(headers)} |->
        columns[CHOOSE k \in 1..Len(headers) :
                    /\ headers[k] = h
                    /\ \A l \in 1..Len(headers) : headers[l] = h => l <= k]]

\* the rows of lines[i..] under the header tokens
RECURSIVE AlternativeRows(_, _, _)
AlternativeRows(lines, i, headers) ==
    IF i > Len(lines) THEN <<>>
    ELSE With(Strip(lines[i]), LAMBDA line :
         With(SplitWide(line), LAMBDA columns :
            (IF StartsWith(line, "...") /\ Contains(line, "County") THEN <<>>
             ELSE IF line = "" THEN <<>>
             ELSE IF Len(columns) # Len(headers) THEN <<>>
             ELSE <<ZipDict(headers, columns)>>)
            \o AlternativeRows(lines, i + 1, headers)))

extract_alternative_observations(lines) ==
    With(FirstTableHeader(lines, 1), LAMBDA header_index :
        IF header_index = 0 THEN <<>>
        ELSE With(SplitWide(Strip(lines[header_index])), LAMBDA headers :
                AlternativeRows(lines, header_index + 1, headers)))

(***************************************************************************)
(* The parsing templates.  A template returns None (<<>>) or <<result>>.   *)
(***************************************************************************)
MARKER == "**METADATA"

\* parse_template_structured with a fault: the marker test is left out
parse_template_structured_unmarked(lines) ==
    With(extract_issuance_timestamp(lines), LAMBDA ts :
        IF ts[1] = UNKNOWN_DATE THEN None
        ELSE Some([metadata        |-> extract_metadata(lines),
                   observations    |-> extract_observations(lines),
                   header_metadata |-> extract_header_metadata(lines),
                   issuance_date   |-> ts[1],
                   issuance_time   |-> ts[2]]))

parse_template_structured(lines) ==
    IF ~Contains(Join(lines), MARKER) THEN None
    ELSE With(extract_issuance_timestamp(lines), LAMBDA ts :
             IF ts[1] = UNKNOWN_DATE THEN None
             ELSE Some([metadata        |-> extract_metadata(lines),
                        observations    |-> extract_observations(lines),
                        header_metadata |-> extract_header_metadata(lines),
                        issuance_date   |-> ts[1],
                        issuance_time   |-> ts[2]]))

\* parse_template_alternative with a fault: the marker test is left out
parse_template_alternative_unmarked(lines) ==
    With(extract_issuance_timestamp(lines), LAMBDA ts :
        IF ts[1] = UNKNOWN_DATE THEN None
        ELSE Some([metadata        |-> extract_alternative_metadata(lines),
                   observations    |-> extract_alternative_observations(lines),
                   header_metadata |-> extract_header_metadata(lines),
                   issuance_date   |-> ts[1],
                   issuance_time   |-> ts[2]]))

\* parse_template_alternative with a fault: the "unknown_date" test is left out
parse_template_alternative_undated(lines) ==
    IF Contains(Join(lines), MARKER) THEN None
    ELSE With(extract_issuance_timestamp(lines), LAMBDA ts :
             Some([metadata        |-> extract_alternative_metadata(lines),
                   observations    |-> extract_alternative_observations(lines),
                   header_metadata |-> extract_header_metadata(lines),
                   issuance_date   |-> ts[1],
                   issuance_time   |-> ts[2]]))

\* parse_template_alternative with a fault: a result without observations is
\* no result
parse_template_alternative_needs_rows(lines) ==
    IF Contains(Join(lines), MARKER) THEN None
    ELSE With(extract_issuance_timestamp(lines), LAMBDA ts :
             IF ts[1] = UNKNOWN_DATE \/ extract_alternative_observations(lines) = <<>> THEN None
             ELSE Some([metadata        |-> extract_alternative_metadata(lines),
                        observations    |-> extract_alternative_observations(lines),
                        header_metadata |-> extract_header_metadata(lines),
                        issuance_date   |-> ts[1],
                        issuance_time   |-> ts[2]]))

parse_template_alternative(lines) ==
    IF Contains(Join(lines), MARKER) THEN None
    ELSE With(extract_issuance_timestamp(lines), LAMBDA ts :
             IF ts[1] = UNKNOWN_DATE THEN None
             ELSE Some([metadata        |-> extract_alternative_metadata(lines),
                        observations    |-> extract_alternative_observations(lines),
                        header_metadata |-> extract_header_metadata(lines),
                        issuance_date   |-> ts[1],
                        issuance_time   |-> ts[2]]))

\* the first template, in the order [structured, alternative], that succeeds
apply_parsing_templates(lines) ==
    With(parse_template_structured(lines), LAMBDA result :
        IF result # None THEN result ELSE parse_template_alternative(lines))

(***************************************************************************)
(* The stations and the bulletins of Spec.                                 *)
(***************************************************************************)
Stations == {"OKX"}

MaxHeaderLines == 2

\* the lines that precede the title line of a statement
HeaderLines == <<"000", "NOUS41 KOKX 031331", "PNSOKX">>

TITLE == "Public Information Statement"
ISSUED == "831 AM EST Mon Feb 3 2025"
ISSUED_LATER == "1015 PM EST Mon Feb 3 2025"
ISSUED_BAD == "831 AM EST Sun Feb 30 2025"
METADATA == "**METADATA**"
ROW == ":1/19/2025,1000 PM, CT, Fairfield, Stamford, , , 41.02, -73.56, SNOW_24, 2, Inch, Public, 24 hour snowfall"
TABLE == "Location          Temp        Amount"
TABLE_ROW == "Stamford, CT       32F         3.5 in"

\* what follows the header lines in a raw_data.csv of Spec
Bodies ==
    { <<>>,
      <<TITLE>>,
      <<ISSUED>>,
      <<TITLE, ISSUED>>,
      <<TITLE, ISSUED, METADATA>>,
      <<TITLE, ISSUED, METADATA, ROW>>,
      <<TITLE, ISSUED, TABLE, TABLE_ROW>>,
      <<TITLE, ISSUED_LATER, METADATA, ROW>>,
      <<TITLE, ISSUED_BAD, METADATA, ROW>> }

Bulletins == {SubSeq(HeaderLines, 1, k) \o b : k \in 0..MaxHeaderLines, b \in Bodies}

(***************************************************************************)
(* The archive of one station directory and process_station.               *)
(***************************************************************************)
NoFile == [state |-> "missing", lines |-> <<>>]        \* no raw_data.csv
Unreadable == [state |-> "unreadable", lines |-> <<>>] \* read_text raises
RawText(lines) == [state |-> "ok", lines |-> lines]    \* read_text().splitlines()

KINDS == {"metadata", "observations", "header_metadata"}

\* f"{kind}_{issuance_date}_{issuance_time}.csv"
FileName(kind, issuance_date, issuance_time) == <<kind, issuance_date, issuance_time>>

Exists(files, name) == name \in DOMAIN files

\* DataFrame(...).to_csv(name): the file is created or replaced
WriteFile(files, name, content) ==
    [n \in DOMAIN files \cup {name} |-> IF n = name THEN content ELSE files[n]]

\* OutputsExist with a fault: the three names are looked up without their time part
OutputsExistByDate(files, issuance_date, issuance_time) ==
    /\ Exists(files, FileName("metadata", issuance_date, ""))
    /\ Exists(files, FileName("observations", issuance_date, ""))
    /\ Exists(files, FileName("header_metadata", issuance_date, ""))

\* meta_file.exists() and obs_file.exists() and header_file.exists()
OutputsExist(files, issuance_date, issuance_time) ==
    /\ Exists(files, FileName("metadata", issuance_date, issuance_time))
    /\ Exists(files, FileName("observations", issuance_date, issuance_time))
    /\ Exists(files, FileName("header_metadata", issuance_date, issuance_time))

save_output_files(files, metadata, observations, header_metadata, issuance_date, issuance_time) ==
    IF OutputsExist(files, issuance_date, issuance_time) THEN files
    ELSE With(WriteFile(files, FileName("metadata", issuance_date, issuance_time),
                        <<metadata>>), LAMBDA f1 :
         With(WriteFile(f1, FileName("observations", issuance_date, issuance_time),
                        observations), LAMBDA f2 :
            IF header_metadata # <<>>
            THEN WriteFile(f2, FileName("header_metadata", issuance_date, issuance_time),
                           header_metadata)
            ELSE f2))

\* apply_parsing_templates, computed once for each bulletin of Spec
ParsedBulletins == [b \in Bulletins |-> apply_parsing_templates(b)]

Parse(lines) ==
    IF lines \in Bulletins THEN ParsedBulletins[lines] ELSE apply_parsing_templates(lines)

\* process_station on a station directory holding rawfile and files: the files
\* afterwards and what was logged
process_station(rawfile, files) ==
    IF rawfile = NoFile
    THEN [files |-> files, outcome |-> "no_input", key |-> <<>>]
    ELSE IF rawfile = Unreadable
    THEN [files |-> files, outcome |-> "read_error", key |-> <<>>]
    ELSE With(Parse(rawfile.lines), LAMBDA result :
             IF result = None
             THEN [files |-> files, outcome |-> "parse_failed", key |-> <<>>]
             ELSE With(result[1], LAMBDA r :
                      IF OutputsExist(files, r.issuance_date, r.issuance_time)
                      THEN [files |-> files, outcome |-> "skipped",
                            key |-> <<r.issuance_date, r.issuance_time>>]
                      ELSE [files |-> save_output_files(files, r.metadata, r.observations,
                                         r.header_metadata, r.issuance_date, r.issuance_time),
                            outcome |-> "saved",
                            key |-> <<r.issuance_date, r.issuance_time>>]))

(***************************************************************************)
(* Spec: one station directory.  The environment replaces raw_data.csv     *)
(* (nothing under modules/ writes it) and 2_parser.py runs process_station.*)
(***************************************************************************)
RawFiles == {NoFile, Unreadable} \cup {RawText(b) : b \in Bulletins}

Idle == [station |-> "", outcome |-> "none", key |-> <<>>, rerun |-> FALSE]

NoInput == <<>>

Init ==
    /\ raw = [s \in Stations |-> NoFile]
    /\ archive = [s \in Stations |-> <<>>]
    /\ last = Idle
    /\ processed = [s \in Stations |-> FALSE]
    /\ input = NoInput
    /\ pc = "idle"
    /\ out = NoInput

\* the environment puts another raw_data.csv into data/<s>/ (or removes it)
PlaceRaw(s) ==
    /\ \E f \in RawFiles :
          /\ f # raw[s]
          /\ raw' = [raw EXCEPT ![s] = f]
    /\ processed' = [processed EXCEPT ![s] = FALSE]
    /\ UNCHANGED <<archive, last, input, pc, out>>

\* process_station(s)
ProcessStation(s) ==
    /\ \E r \in {process_station(raw[s], archive[s])} :
          /\ archive' = [archive EXCEPT ![s] = r.files]
          /\ last' = [station |-> s, outcome |-> r.outcome, key |-> r.key,
                      rerun |-> processed[s]]
    /\ processed' = [processed EXCEPT ![s] = TRUE]
    /\ UNCHANGED <<raw, input, pc, out>>

Next ==
    \E s \in Stations :
        \/ PlaceRaw(s)
        \/ ProcessStation(s)

Spec == Init /\ [][Next]_vars

(***************************************************************************)
(* SpecTimestamp: extract_issuance_timestamp on every list of at most      *)
(* MaxLines lines of TimestampLines.                                       *)
(***************************************************************************)
\* all sequences over S of length at most n
SeqsUpTo(S, n) == UNION {[1..k -> S] : k \in 0..n}

MaxLines == 2

ISSUED_TAB == "831\tAM EST Mon Feb 3 2025"

TimestampLines ==
    { "", "831 AM EST", "Mon Feb 3 2025",
      ISSUED, ISSUED_LATER, ISSUED_BAD, ISSUED_TAB,
      "Updated 1015PM  Tue Dec 31 2024" }

\* the variables of Spec, at rest
ArchiveAtRest ==
    /\ raw = [s \in Stations |-> NoFile]
    /\ archive = [s \in Stations |-> <<>>]
    /\ last = Idle
    /\ processed = [s \in Stations |-> FALSE]

InitTimestamp ==
    /\ ArchiveAtRest
    /\ input \in SeqsUpTo(TimestampLines, MaxLines)
    /\ pc = "start"
    /\ out = NoInput

ExtractTimestamp ==
    /\ pc = "start"
    /\ out' = extract_issuance_timestamp(input)
    /\ pc' = "done"
    /\ UNCHANGED <<raw, archive, last, processed, input>>

NextTimestamp == ExtractTimestamp

SpecTimestamp == InitTimestamp /\ [][NextTimestamp]_vars

(***************************************************************************)
(* SpecTemplates: the two templates and apply_parsing_templates on every   *)
(* list of at most MaxTemplateLines lines of TemplateLines.                *)
(***************************************************************************)
MaxTemplateLines == 3

TemplateLines ==
    { ISSUED, TITLE, METADATA, "see **METADATA** below", "**METADATA", "**META", "DATA**" }

InitTemplates ==
    /\ ArchiveAtRest
    /\ input \in SeqsUpTo(TemplateLines, MaxTemplateLines)
    /\ pc = "start"
    /\ out = NoInput

ApplyTemplates ==
    /\ pc = "start"
    /\ out' = [structured  |-> parse_template_structured(input),
               alternative |-> parse_template_alternative(input),
               result      |-> apply_parsing_templates(input)]
    /\ pc' = "done"
    /\ UNCHANGED <<raw, archive, last, processed, input>>

NextTemplates == ApplyTemplates

SpecTemplates == InitTemplates /\ [][NextTemplates]_vars

(***************************************************************************)
(* SpecObservations: extract_observations on every list of at most MaxRows *)
(* lines, each written out from a row of known fields.                     *)
(***************************************************************************)
MaxRows == 2

FieldCounts == {10, 13, 14, 15}

\* the value field: empty, a number, not a number
Values == {"", " 2", "x"}

\* a row to write: how many fields, its value field, and whether its unit
\* field holds a comma (and so is written in quotes)
RowShapes == [n : FieldCounts, value : Values, quoted : BOOLEAN]

\* the date field of the k-th line
DateTag(k) == ":1/" \o Pad(k, 2) \o "/2025"

UnitOf(shape) == IF shape.quoted THEN "Inch, melted" ELSE " Inch"

\* the fields of the k-th line, of shape shape
FieldsOf(shape, k) ==
    SubSeq(<<DateTag(k), "1000 PM", " CT", " Fairfield", " Stamford", " ", " ",
             " 41.02", " -73.56", " SNOW_24", shape.value, UnitOf(shape),
             " Public", " 24 hour snowfall", " estimated">>, 1, shape.n)

\* one field as csv.writer writes it
WriteField(f) == IF Contains(f, ",") THEN "\"" \o f \o "\"" ELSE f

RECURSIVE WriteRow(_)
WriteRow(fields) ==
    IF Len(fields) = 1 THEN WriteField(fields[1])
    ELSE WriteField(Head(fields)) \o "," \o WriteRow(Tail(fields))

WriteLines(shapes) == [k \in 1..Len(shapes) |-> WriteRow(FieldsOf(shapes[k], k))]

InitObservations ==
    /\ ArchiveAtRest
    /\ \E shapes \in SeqsUpTo(RowShapes, MaxRows) :
          input = [rows |-> shapes, lines |-> WriteLines(shapes)]
    /\ pc = "start"
    /\ out = NoInput

ExtractObservations ==
    /\ pc = "start"
    /\ out' = extract_observations(input.lines)
    /\ pc' = "done"
    /\ UNCHANGED <<raw, archive, last, processed, input>>

NextObservations == ExtractObservations

SpecObservations == InitObservations /\ [][NextObservations]_vars

(***************************************************************************)
(* SpecRows: extract_observations on every list of at most MaxRowLines     *)
(* lines of RowLines, rows as a bulletin holds them.                       *)
(***************************************************************************)
MaxRowLines == 3

CLAIM_ROW == "1/19/2025,1000 PM, CT, Fairfield, Stamford, , , 41.02, -73.56, SNOW_24, 2, Inch, Public, 24 hour snowfall"
ROW_NO_TEXT == "1/20/2025,0700 AM, NY, Kings, Brooklyn, , , 40.65, -73.95, SNOW, 3.5,,,"
ROW_BLANK_TYPE == "1/21/2025,0815 AM, NJ, Bergen, Paramus, , , 40.94, -74.07, , 45, MPH, Trained Spotter, peak gust"
ROW_LOWER == "1/22/2025,0930 AM, NJ, Essex, Newark, , , 40.73, -74.17, pkgust , 51, MPH, Mesonet, peak gust"
ROW_BAD_LAT == "1/23/2025,1100 AM, CT, Fairfield, Darien, , , n/a, -73.47, SNOW_24, 4, Inch, Public, 24 hour snowfall"
ROW_BAD_LON == "1/24/2025,1100 AM, CT, Fairfield, Darien, , , 41.08, west, SNOW_24, 4, Inch, Public, 24 hour snowfall"
ROW_BAD_VALUE == "1/25/2025,1100 AM, CT, Fairfield, Darien, , , 41.08, -73.47, SNOW_24, T, Inch, Public, trace of snow"

RowLines ==
    { METADATA, ROW, CLAIM_ROW, ROW_NO_TEXT, ROW_BLANK_TYPE, ROW_LOWER,
      ROW_BAD_LAT, ROW_BAD_LON, ROW_BAD_VALUE }

InitRows ==
    /\ ArchiveAtRest
    /\ input \in SeqsUpTo(RowLines, MaxRowLines)
    /\ pc = "start"
    /\ out = NoInput

ExtractRows ==
    /\ pc = "start"
    /\ out' = extract_observations(input)
    /\ pc' = "done"
    /\ UNCHANGED <<raw, archive, last, processed, input>>

NextRows == ExtractRows

SpecRows == InitRows /\ [][NextRows]_vars

(***************************************************************************)
(* SpecPns: parse_pns_data.extract_observations on every list of at most   *)
(* MaxPnsLines lines of PnsLines.                                          *)
(***************************************************************************)
MaxPnsLines == 4

ROW_NO_VALUE == "1/26/2025,0600 AM, NY, Queens, Flushing, , , 40.76, -73.83, SNOW,, Inch, Public, not measured"

PnsLines == { METADATA, ROW, CLAIM_ROW, ROW_NO_VALUE, ROW_BAD_VALUE, "" }

InitPns ==
    /\ ArchiveAtRest
    /\ input \in SeqsUpTo(PnsLines, MaxPnsLines)
    /\ pc = "start"
    /\ out = NoInput

ExtractPns ==
    /\ pc = "start"
    /\ out' = pns_extract_observations(input)
    /\ pc' = "done"
    /\ UNCHANGED <<raw, archive, last, processed, input>>

NextPns == ExtractPns

SpecPns == InitPns /\ [][NextPns]_vars

(***************************************************************************)
(* SpecAlternative: extract_alternative_observations on every list of at   *)
(* most MaxTableLines lines of TableLines.                                 *)
(***************************************************************************)
MaxTableLines == 3

TABLE_TWICE == "Location          Amount      Amount"
TABLE_ROW_TWICE == "  Norwalk, CT        2.0 in      4.0 in"
TWO_TOKENS == "Greenwich, CT      30F"
COUNTY == "...Fairfield County...      32F         total"

TableLines == { TABLE, TABLE_ROW, TABLE_TWICE, TABLE_ROW_TWICE, TWO_TOKENS, COUNTY, "   " }

InitAlternative ==
    /\ ArchiveAtRest
    /\ input \in SeqsUpTo(TableLines, MaxTableLines)
    /\ pc = "start"
    /\ out = NoInput

ExtractAlternative ==
    /\ pc = "start"
    /\ out' = extract_alternative_observations(input)
    /\ pc' = "done"
    /\ UNCHANGED <<raw, archive, last, processed, input>>

NextAlternative == ExtractAlternative

SpecAlternative == InitAlternative /\ [][NextAlternative]_vars

(***************************************************************************)
(* SpecHeader: extract_header_metadata on every list of at most            *)
(* MaxHeaderInput lines of HeaderInputLines.                               *)
(***************************************************************************)
MaxHeaderInput == 3

NOUS_PADDED == "  NOUS41 KOKX 031331 "
TITLE_INSIDE == " ...Public Information Statement...UPDATED "
TITLE_LOWER == "public information statement"

HeaderInputLines == { "000", NOUS_PADDED, TITLE, TITLE_INSIDE, TITLE_LOWER, "" }

InitHeader ==
    /\ ArchiveAtRest
    /\ input \in SeqsUpTo(HeaderInputLines, MaxHeaderInput)
    /\ pc = "start"
    /\ out = NoInput

ExtractHeader ==
    /\ pc = "start"
    /\ out' = extract_header_metadata(input)
    /\ pc' = "done"
    /\ UNCHANGED <<raw, archive, last, processed, input>>

NextHeader == ExtractHeader

SpecHeader == InitHeader /\ [][NextHeader]_vars

(***************************************************************************)
(* SpecMetadata: extract_metadata and extract_alternative_metadata on      *)
(* every list of at most MaxMetadataLines lines of MetadataLines.          *)
(***************************************************************************)
MaxMetadataLines == 3

NOUS_LINE == "NOUS41 KOKX 031331"
NOUS_FULL == "NOUS41 KOKX 250203 CTZ005>012"
NWS_LINE == "National Weather Service New York NY"

MetadataLines == { NOUS_LINE, NOUS_FULL, NWS_LINE, ISSUED, TITLE, "" }

InitMetadata ==
    /\ ArchiveAtRest
    /\ input \in SeqsUpTo(MetadataLines, MaxMetadataLines)
    /\ pc = "start"
    /\ out = NoInput

ExtractMetadata ==
    /\ pc = "start"
    /\ out' = extract_metadata(input)
    /\ pc' = "structured"
    /\ UNCHANGED <<raw, archive, last, processed, input>>

ExtractAlternativeMetadata ==
    /\ pc = "start"
    /\ out' = extract_alternative_metadata(input)
    /\ pc' = "alternative"
    /\ UNCHANGED <<raw, archive, last, processed, input>>

NextMetadata == ExtractMetadata \/ ExtractAlternativeMetadata

SpecMetadata == InitMetadata /\ [][NextMetadata]_vars

(***************************************************************************)
(* SpecRun: main() of 2_parser.py over the station directories of data/.   *)
(* input is what is left of station_list, last the list as it was built,   *)
(* out the outcomes logged so far.  The environment may remove a           *)
(* raw_data.csv after the list was built.                                  *)
(***************************************************************************)
MaxStations == 2

StationNames == <<"OKX", "BOX", "ALY", "PHI">>

RunStations == {StationNames[i] : i \in 1..MaxStations}

\* no issuance time can be read from it: no template parses it
UNPARSEABLE == <<TITLE>>

RunRawFiles ==
    { NoFile, Unreadable, RawText(UNPARSEABLE), RawText(<<TITLE, ISSUED, METADATA, ROW>>) }

\* the orders in which iterdir() may yield the directories of S
Orderings(S) ==
    {order \in [1..Cardinality(S) -> S] :
        \A i, j \in 1..Cardinality(S) : order[i] = order[j] => i = j}

\* the directories of data/ that hold a raw_data.csv
StationList(rawfiles) == {s \in DOMAIN rawfiles : rawfiles[s] # NoFile}

\* main's loop with a fault: a station that fails ends the loop
RemainingAfterHalting(station_list, outcome) ==
    IF outcome \in {"no_input", "read_error", "parse_failed"} THEN <<>>
    ELSE Tail(station_list)

\* the stations main's for loop still visits after process_station returned
\* for the first of station_list
RemainingAfter(station_list, outcome) == Tail(station_list)

InitRun ==
    /\ raw \in [RunStations -> RunRawFiles]
    /\ archive = [s \in RunStations |-> <<>>]
    /\ last = <<>>
    /\ processed = [s \in RunStations |-> FALSE]
    /\ input = <<>>
    /\ pc = "start"
    /\ out = <<>>

\* station_list = [...]
ListStations ==
    /\ pc = "start"
    /\ \E order \in Orderings(StationList(raw)) :
          /\ input' = order
          /\ last' = order
    /\ pc' = "loop"
    /\ UNCHANGED <<raw, archive, processed, out>>

\* one turn of the for loop: process_station(station)
ProcessNext ==
    /\ pc = "loop"
    /\ input # <<>>
    /\ \E s \in {Head(input)} :
       \E r \in {process_station(raw[s], archive[s])} :
          /\ archive' = [archive EXCEPT ![s] = r.files]
          /\ out' = Append(out, [station |-> s, outcome |-> r.outcome])
          /\ processed' = [processed EXCEPT ![s] = TRUE]
          /\ input' = RemainingAfter(input, r.outcome)
    /\ UNCHANGED <<raw, last, pc>>

\* the for loop ends
FinishRun ==
    /\ pc = "loop"
    /\ input = <<>>
    /\ pc' = "done"
    /\ UNCHANGED <<raw, archive, last, processed, input, out>>

\* the environment removes the raw_data.csv of a station still to be visited
RemoveRaw(s) ==
    /\ pc = "loop"
    /\ \E i \in 1..Len(input) : input[i] = s
    /\ raw[s] # NoFile
    /\ raw' = [raw EXCEPT ![s] = NoFile]
    /\ UNCHANGED <<archive, last, processed, input, pc, out>>

NextRun ==
    \/ ListStations
    \/ ProcessNext
    \/ FinishRun
    \/ \E s \in RunStations : RemoveRaw(s)

SpecRun == InitRun /\ [][NextRun]_vars

(***************************************************************************)
(* SpecAccumulate: accumulate_all_data of 4_combine_dates.py on the        *)
(* directory data/ALL_STATIONS, kept in archive as a function from file    *)
(* names to files.  A file has rows and may be unreadable (read_csv        *)
(* raises).  The environment writes the dated tables and damages files.    *)
(***************************************************************************)
MaxFileRows == 2

MASTER_FILE == "all_stations_all_dates.csv"

DatedCsvNames == {"all_stations_2025-02-03-08-31.csv", "all_stations_2025-02-04-08-31.csv"}

\* the rows a table may hold (all files share one format)
TableRows == {"r1", "r2"}

CsvFile(rows, readable) == [rows |-> rows, readable |-> readable]

\* the frames appended to all_dfs for the master file
LoadedMaster(dir) ==
    IF MASTER_FILE \in DOMAIN dir /\ dir[MASTER_FILE].readable
    THEN <<dir[MASTER_FILE].rows>> ELSE <<>>

\* the frames appended to all_dfs for the other files, in glob order, from
\* position i of the order on
RECURSIVE LoadedOthers(_, _, _)
LoadedOthers(dir, order, i) ==
    IF i > Len(order) THEN <<>>
    ELSE (IF dir[order[i]].readable THEN <<dir[order[i]].rows>> ELSE <<>>)
         \o LoadedOthers(dir, order, i + 1)

\* pd.concat(all_dfs, ignore_index=True)
RECURSIVE Concat(_)
Concat(all_dfs) ==
    IF all_dfs = <<>> THEN <<>> ELSE Head(all_dfs) \o Concat(Tail(all_dfs))

\* accumulate_all_data with a fault: the existing master file is not loaded
accumulate_all_data_without_master(dir, order) ==
    With(LoadedOthers(dir, order, 1), LAMBDA all_dfs :
        IF all_dfs = <<>> THEN [files |-> dir, outcome |-> "nothing"]
        ELSE [files |-> WriteFile(dir, MASTER_FILE,
                            CsvFile(drop_duplicates(Concat(all_dfs), 1), TRUE)),
              outcome |-> "saved"])

\* accumulate_all_data() on the directory dir, glob yielding the other files
\* in the given order: the directory afterwards and what was logged
accumulate_all_data(dir, order) ==
    With(LoadedMaster(dir) \o LoadedOthers(dir, order, 1), LAMBDA all_dfs :
        IF all_dfs = <<>> THEN [files |-> dir, outcome |-> "nothing"]
        ELSE [files |-> WriteFile(dir, MASTER_FILE,
                            CsvFile(drop_duplicates(Concat(all_dfs), 1), TRUE)),
              outcome |-> "saved"])

InitAccumulate ==
    /\ raw = <<>>
    /\ archive = <<>>
    /\ last = [outcome |-> "none", run |-> 0]
    /\ processed = <<>>
    /\ input = NoInput
    /\ pc = "idle"
    /\ out = NoInput

\* the combine-stations stage writes a dated table
PlaceCsv(name) ==
    /\ \E rows \in SeqsUpTo(TableRows, MaxFileRows) :
          /\ (name \in DOMAIN archive => archive[name] # CsvFile(rows, TRUE))
          /\ archive' = WriteFile(archive, name, CsvFile(rows, TRUE))
    /\ pc' = "idle"
    /\ UNCHANGED <<raw, last, processed, input, out>>

\* a file of the directory becomes unreadable
Damage(name) ==
    /\ name \in DOMAIN archive
    /\ archive[name].readable
    /\ archive' = [archive EXCEPT ![name].readable = FALSE]
    /\ pc' = "idle"
    /\ UNCHANGED <<raw, last, processed, input, out>>

\* accumulate_all_data()
AccumulateAllData ==
    /\ \E order \in Orderings(DOMAIN archive \ {MASTER_FILE}) :
       \E r \in {accumulate_all_data(archive, order)} :
          /\ archive' = r.files
          /\ last' = [outcome |-> r.outcome, run |-> 1 - last.run]
    /\ pc' = "accumulated"
    /\ UNCHANGED <<raw, processed, input, out>>

NextAccumulate ==
    \/ \E name \in DatedCsvNames : PlaceCsv(name)
    \/ \E name \in DatedCsvNames \cup {MASTER_FILE} : Damage(name)
    \/ AccumulateAllData

SpecAccumulate == InitAccumulate /\ [][NextAccumulate]_vars

(***************************************************************************)
(* SpecPipeline: 0_master.py runs the scripts one after the other, each in *)
(* a subprocess it waits for.  input is the position of the script in      *)
(* scripts, out the return codes so far; raw and archive hold what the     *)
(* scraper and the parser have done for each station of the cycle.         *)
(***************************************************************************)
scripts ==
    << "1_scraper.py", "2_parser.py", "3_combine_stations.py", "4_combine_dates.py",
       "5_snow_map.py", "6_auto_update_git.py" >>

\* the return codes of a python3 subprocess: success, uncaught exception,
\* script not found
ReturnCodes == {0, 1, 2}

\* the scripts that work station by station, and the variable that holds
\* their progress
PerStation == {"1_scraper.py", "2_parser.py"}

\* run_script with a fault: the return code is not looked at
ExitsOnNothing(returncode) == FALSE

\* run_script: result.returncode != 0 leads to sys.exit
ExitsOn(returncode) == returncode # 0

InitPipeline ==
    /\ raw = [s \in RunStations |-> "pending"]
    /\ archive = [s \in RunStations |-> "pending"]
    /\ last = <<>>
    /\ processed = <<>>
    /\ input = 1
    /\ pc = "between"
    /\ out = <<>>

\* run_script(script): subprocess.run starts the script
StartScript ==
    /\ pc = "between"
    /\ input <= Len(scripts)
    /\ pc' = "in_stage"
    /\ UNCHANGED <<raw, archive, last, processed, input, out>>

\* the scraper handles one station: its page is fetched or the station is
\* skipped
ScrapeStation(s) ==
    /\ pc = "in_stage"
    /\ scripts[input] = "1_scraper.py"
    /\ raw[s] = "pending"
    /\ \E result \in {"fetched", "failed"} : raw' = [raw EXCEPT ![s] = result]
    /\ UNCHANGED <<archive, last, processed, input, pc, out>>

\* the parser handles one station: its tables are saved or the station is
\* skipped
ParseStation(s) ==
    /\ pc = "in_stage"
    /\ scripts[input] = "2_parser.py"
    /\ archive[s] = "pending"
    /\ \E result \in {"saved", "failed"} : archive' = [archive EXCEPT ![s] = result]
    /\ UNCHANGED <<raw, last, processed, input, pc, out>>

\* the work of the running script is complete
StageComplete ==
    /\ scripts[input] = "1_scraper.py" => \A s \in RunStations : raw[s] # "pending"
    /\ scripts[input] = "2_parser.py" => \A s \in RunStations : archive[s] # "pending"

\* subprocess.run returns: the script ended, with return code 0 after its
\* work or with another one at any moment of it
EndScript ==
    /\ pc = "in_stage"
    /\ \E returncode \in ReturnCodes :
          /\ returncode = 0 => StageComplete
          /\ out' = Append(out, [script |-> scripts[input], returncode |-> returncode])
          /\ last' = <<returncode>>
          /\ IF ExitsOn(returncode)
             THEN pc' = "exited" /\ input' = input
             ELSE pc' = "between" /\ input' = input + 1
    /\ UNCHANGED <<raw, archive, processed>>

\* print("All scripts executed successfully!")
AllScriptsExecuted ==
    /\ pc = "between"
    /\ input > Len(scripts)
    /\ pc' = "finished"
    /\ UNCHANGED <<raw, archive, last, processed, input, out>>

NextPipeline ==
    \/ StartScript
    \/ \E s \in RunStations : ScrapeStation(s)
    \/ \E s \in RunStations : ParseStation(s)
    \/ EndScript
    \/ AllScriptsExecuted

SpecPipeline == InitPipeline /\ [][NextPipeline]_vars

(***************************************************************************)
(* SpecParallel: process_station for two stations, run side by side, one   *)
(* file operation at a time.  processed holds each run's position, input   *)
(* the lines it read, out its parse result, last the archive at the start. *)
(***************************************************************************)
ParallelStations == {"OKX", "BOX"}

WITH_HEADER == <<"000", TITLE, ISSUED_LATER, TABLE, TABLE_ROW>>

ParallelRawFiles == RunRawFiles \cup {RawText(WITH_HEADER)}

\* a station directory as an earlier run left it
EarlierFiles == process_station(RawText(<<TITLE, ISSUED, METADATA, ROW>>), <<>>).files

\* a station directory that holds the three files of WITH_HEADER
EarlierFilesWithHeader == process_station(RawText(WITH_HEADER), <<>>).files

\* save_output_files with a fault: every station writes into one directory
OutputDirShared(station) == "OKX"

\* output_dir = BASE_DIR / "data" / station
OutputDir(station) == station

InitParallel ==
    /\ raw \in [ParallelStations -> ParallelRawFiles]
    /\ archive \in [ParallelStations -> {<<>>, EarlierFiles, EarlierFilesWithHeader}]
    /\ last = archive
    /\ processed = [s \in ParallelStations |-> "is_file"]
    /\ input = [s \in ParallelStations |-> <<>>]
    /\ pc = "parallel"
    /\ out = [s \in ParallelStations |-> None]

\* the run of station s moves to position p
Goto(s, p) == processed' = [processed EXCEPT ![s] = p]

\* if not input_file.is_file(): return
IsFile(s) ==
    /\ processed[s] = "is_file"
    /\ Goto(s, IF raw[s] = NoFile THEN "done" ELSE "read_text")
    /\ UNCHANGED <<raw, archive, last, input, pc, out>>

\* lines = input_file.read_text().splitlines(), or return on an exception
ReadText(s) ==
    /\ processed[s] = "read_text"
    /\ IF raw[s].state = "ok"
       THEN /\ input' = [input EXCEPT ![s] = raw[s].lines]
            /\ Goto(s, "parse")
       ELSE /\ input' = input
            /\ Goto(s, "done")
    /\ UNCHANGED <<raw, archive, last, pc, out>>

\* result = apply_parsing_templates(lines) and the test of the three files
ParseAndCheck(s) ==
    /\ processed[s] = "parse"
    /\ \E result \in {Parse(input[s])} :
          /\ out' = [out EXCEPT ![s] = result]
          /\ Goto(s, IF result = None THEN "done"
                     ELSE IF OutputsExist(archive[OutputDir(s)], result[1].issuance_date,
                                          result[1].issuance_time)
                     THEN "done" ELSE "save")
    /\ UNCHANGED <<raw, archive, last, input, pc>>

\* save_output_files: its own test of the three files
SaveCheck(s) ==
    /\ processed[s] = "save"
    /\ Goto(s, IF OutputsExist(archive[OutputDir(s)], out[s][1].issuance_date,
                               out[s][1].issuance_time)
               THEN "done" ELSE "write_metadata")
    /\ UNCHANGED <<raw, archive, last, input, pc, out>>

\* the file of the kind for the result r
OutputName(kind, r) == FileName(kind, r.issuance_date, r.issuance_time)

\* pd.DataFrame([metadata]).to_csv(metadata_filename)
WriteMetadata(s) ==
    /\ processed[s] = "write_metadata"
    /\ archive' = [archive EXCEPT ![OutputDir(s)] =
                      WriteFile(@, OutputName("metadata", out[s][1]), <<out[s][1].metadata>>)]
    /\ Goto(s, "write_observations")
    /\ UNCHANGED <<raw, last, input, pc, out>>

\* pd.DataFrame(observations).to_csv(observations_filename)
WriteObservations(s) ==
    /\ processed[s] = "write_observations"
    /\ archive' = [archive EXCEPT ![OutputDir(s)] =
                      WriteFile(@, OutputName("observations", out[s][1]),
                                out[s][1].observations)]
    /\ Goto(s, "write_header")
    /\ UNCHANGED <<raw, last, input, pc, out>>

\* if header_metadata: pd.DataFrame(header_metadata, ...).to_csv(...)
WriteHeader(s) ==
    /\ processed[s] = "write_header"
    /\ archive' = [archive EXCEPT ![OutputDir(s)] =
                      IF out[s][1].header_metadata # <<>>
                      THEN WriteFile(@, OutputName("header_metadata", out[s][1]),
                                     out[s][1].header_metadata)
                      ELSE @]
    /\ Goto(s, "done")
    /\ UNCHANGED <<raw, last, input, pc, out>>

NextParallel ==
    \E s \in ParallelStations :
        \/ IsFile(s)
        \/ ReadText(s)
        \/ ParseAndCheck(s)
        \/ SaveCheck(s)
        \/ WriteMetadata(s)
        \/ WriteObservations(s)
        \/ WriteHeader(s)

SpecParallel == InitParallel /\ [][NextParallel]_vars

(***************************************************************************)
(* SpecFetch: fetch_page of 1_scraper.py for every station name, every     *)
(* behaviour of requests.get and of the debug file.  A result tells what   *)
(* was returned or raised, how many requests were issued and what was      *)
(* written.                                                                *)
(***************************************************************************)
\* the station lookup loaded from stations_pns.csv
StationUrls ==
    [CAR |-> "https://forecast.weather.gov/product.php?site=NWS&product=PNS&issuedby=CAR",
     OKX |-> "https://forecast.weather.gov/product.php?site=NWS&product=PNS&issuedby=OKX",
     EMPTY |-> ""]

FetchStations == {"CAR", "OKX", "EMPTY", "INVALID"}

\* stations.get(station): "" stands for None, both fail "if not url" alike
UrlOf(station) == IF station \in DOMAIN StationUrls THEN StationUrls[station] ELSE ""

PageTexts == {"<html>Valid HTML Content</html>", ""}

\* what requests.get does: it answers with a status and a text, or raises
ServerBehaviours ==
    [kind : {"answers"}, status : {200, 404, 403, 500}, text : PageTexts, exception : {""}]
    \cup [kind : {"raises"}, status : {0}, text : {""},
          exception : {"Timeout", "ConnectionError", "Exception"}]

\* the classes derived from requests.exceptions.RequestException
RequestExceptions == {"Timeout", "ConnectionError", "HTTPError"}

Returned(value, requests) ==
    [returned |-> value, raised |-> "", requests |-> requests, debug_html |-> None]

Raised(exception, requests) ==
    [returned |-> None, raised |-> exception, requests |-> requests, debug_html |-> None]

\* the part of fetch_page inside the try, with what the except clause makes
\* of an exception
FetchInTry(server, writable) ==
    IF server.kind = "raises"
    THEN (IF server.exception \in RequestExceptions THEN Returned(None, 1)
          ELSE Raised(server.exception, 1))
    ELSE IF server.status = 404 THEN Returned(None, 1)
    ELSE IF server.status >= 400 THEN Returned(None, 1)
    ELSE IF ~writable THEN Raised("OSError", 1)
    ELSE [returned |-> Some(server.text), raised |-> "", requests |-> 1,
          debug_html |-> Some(server.text)]

\* fetch_page with a fault: the request is issued before the URL is tested
fetch_page_requests_first(station, server, writable) ==
    With(FetchInTry(server, writable), LAMBDA r :
        IF UrlOf(station) = "" THEN Returned(None, 1) ELSE r)

\* fetch_page(station), requests.get behaving as server and the debug file
\* being writable or not
fetch_page(station, server, writable) ==
    IF UrlOf(station) = "" THEN Returned(None, 0)
    ELSE FetchInTry(server, writable)

InitFetch ==
    /\ ArchiveAtRest
    /\ input \in [station : FetchStations, server : ServerBehaviours, writable : BOOLEAN]
    /\ pc = "start"
    /\ out = NoInput

FetchPage ==
    /\ pc = "start"
    /\ out' = fetch_page(input.station, input.server, input.writable)
    /\ pc' = "done"
    /\ UNCHANGED <<raw, archive, last, processed, input>>

NextFetch == FetchPage

SpecFetch == InitFetch /\ [][NextFetch]_vars

(***************************************************************************)
(* SpecScrape: scrape_all_pns of basic_pns_statement_scrape.py, run after   *)
(* run.  archive is data/pns_reports.csv: None while it does not exist,    *)
(* else Some(the report cells below the header line).  last holds the file *)
(* as the latest run found it, out the reports that run collected.         *)
(***************************************************************************)
MaxVersions == 2
MaxReports == 4

\* scrape_pns_page failed with a RequestException: it returns []
PageError == <<"error">>

\* what scrape_pns_page can make of one version: the stripped text of every
\* <pre> element, in document order
ScrapedPages == { <<>>, <<"a">>, <<"b">>, <<"">>, <<"a", "a">>, <<"a", "b">> }

Versions == UNION {[1..n -> ScrapedPages \cup {PageError}] : n \in 0..MaxVersions}

\* the texts pd.read_csv takes for a missing value (its default na_values)
NA_VALUES ==
    { "", "#N/A", "#N/A N/A", "#NA", "-1.#IND", "-1.#QNAN", "-NaN", "-nan", "1.#IND",
      "1.#QNAN", "<NA>", "N/A", "NA", "NULL", "NaN", "None", "n/a", "nan", "null" }

\* a missing value of a column of texts
NA == [isna |-> TRUE, text |-> ""]

\* pd.read_csv of one cell: an empty cell is a missing value
ReadCell(cell) == IF cell \in NA_VALUES THEN NA ELSE [isna |-> FALSE, text |-> cell]

\* DataFrame.to_csv of one value: a missing value is written as an empty cell
WriteCell(value) == IF value.isna THEN "" ELSE value.text

\* load_existing_data: the "report" column of the file, or an empty one
load_existing_data(file) ==
    IF file = None THEN <<>> ELSE [i \in 1..Len(file[1]) |-> ReadCell(file[1][i])]

\* report["report"] in existing_data["report"].values
InValues(report, values) ==
    \E i \in 1..Len(values) : ~values[i].isna /\ values[i].text = report

\* scrape_pns_page(version): the reports of the page, [] after an error
scrape_pns_page(versions, version) ==
    IF versions[version] = PageError THEN <<>> ELSE versions[version]

\* the loop over the versions from version on: all_reports
RECURSIVE AllReports(_, _, _)
AllReports(versions, existing_data, version) ==
    IF version > Len(versions) THEN <<>>
    ELSE SelectSeq(scrape_pns_page(versions, version),
                   LAMBDA report : ~InValues(report, existing_data))
         \o AllReports(versions, existing_data, version + 1)

\* save_to_csv(pd.concat([existing_data, new_data], ignore_index=True))
SavedFile(existing_data, all_reports) ==
    Some([i \in 1..Len(existing_data) |-> WriteCell(existing_data[i])] \o all_reports)

\* scrape_all_pns: the file after the run over the versions found
scrape_all_pns(file, versions) ==
    IF Len(versions) = 0 THEN file
    ELSE With(AllReports(versions, load_existing_data(file), 1),
              LAMBDA all_reports :
                  IF all_reports = <<>> THEN file
                  ELSE SavedFile(load_existing_data(file), all_reports))

InitScrape ==
    /\ raw = [s \in Stations |-> NoFile]
    /\ processed = [s \in Stations |-> FALSE]
    /\ archive = None
    /\ last = [before |-> None, run |-> 0]
    /\ input = NoInput
    /\ pc = "scrape"
    /\ out = <<>>

\* one run of the script against what the site serves at that moment
ScrapeAllPns ==
    /\ pc = "scrape"
    /\ \E versions \in Versions :
          /\ archive' = scrape_all_pns(archive, versions)
          /\ out' = IF Len(versions) = 0 THEN <<>>
                    ELSE AllReports(versions, load_existing_data(archive), 1)
    /\ archive' # None => Len(archive'[1]) <= MaxReports
    /\ last' = [before |-> archive, run |-> 1 - last.run]
    /\ UNCHANGED <<raw, processed, input, pc>>

NextScrape == ScrapeAllPns

SpecScrape == InitScrape /\ [][NextScrape]_vars

(***************************************************************************)
(* SpecCombine: combine_pns_metadata of 3_combine_stations.py.  raw[f] is  *)
(* data/<f>/raw_data.csv, archive the all_stations_<timestamp>.csv of the  *)
(* run: None while it is not written, else Some(the table as written).     *)
(***************************************************************************)
MaxStationRows == 2

CombineFolders == {"OKX", "BOX"}

GAP_ROW == "1/19/2025,1000 PM, CT, Fairfield, Stamford, x, y, 41.02, -73.56, SNOW_24, 2, Inch, Public, 24 hour snowfall"
BLANK_ROW == ", , , , ,x,y, , , , , , , "
NOTE_ROW == "Snowfall reports,,,,,,,,,,,,,"
BAD_DAY_ROW == "2/30/2025,0700 AM, NY, Kings, Brooklyn, , , 40.65, -73.95, SNOW, 3.5, Inch, Public, estimated"
LONG_ROW == "1/27/2025,0700 AM, NY, Kings, Brooklyn, , , 40.65, -73.95, SNOW, 3.5, Inch, Public, drifts, up to 2 feet"

CombineLines ==
    { ROW, CLAIM_ROW, ROW_NO_TEXT, GAP_ROW, BLANK_ROW, NOTE_ROW, BAD_DAY_ROW, LONG_ROW, TITLE }

\* the raw files of the second folder
OtherStationFiles ==
    { NoFile, RawText(<<CLAIM_ROW, BLANK_ROW, NOTE_ROW>>), RawText(<<TITLE, CLAIM_ROW>>),
      RawText(<<ROW_NO_TEXT, CLAIM_ROW>>) }

\* the fields of each line, as the tokenizer of pd.read_csv splits it
LineCells == [line \in CombineLines |-> CsvRow(line)]

\* pd.read_csv(station_file, header=None, dtype=str): the first line sets the
\* number of columns, a longer line raises ParserError, a shorter one is
\* filled with missing values, and a file without a line raises EmptyDataError
read_csv(lines) ==
    IF lines = <<>> THEN [raised |-> TRUE, ncols |-> 0, rows |-> <<>>]
    ELSE With(Len(LineCells[lines[1]]), LAMBDA ncols :
            IF \E i \in 1..Len(lines) : Len(LineCells[lines[i]]) > ncols
            THEN [raised |-> TRUE, ncols |-> 0, rows |-> <<>>]
            ELSE [raised |-> FALSE, ncols |-> ncols,
                  rows |-> [i \in 1..Len(lines) |->
                               [k \in 1..ncols |->
                                   IF k <= Len(LineCells[lines[i]])
                                   THEN ReadCell(LineCells[lines[i]][k]) ELSE NA]]])

\* the positions of df.iloc[:, [0, 1, 2, 3, 4, 7, 8, 9, 10, 11, 12, 13]]
SELECTED == <<0, 1, 2, 3, 4, 7, 8, 9, 10, 11, 12, 13>>

\* the labels of the columns of a station's frame: the selected positions of
\* header=None, and "Station"
StationColumns == <<"0", "1", "2", "3", "4", "7", "8", "9", "10", "11", "12", "13", "Station">>

new_headers ==
    <<"date", "time", "state", "county", "city", "latitude", "longitude",
      "type", "value", "unit", "source", "description", "Station">>

\* the try block for one folder: the frame appended to all_data, as a list
\* of one frame, or nothing where is_file() is false or an exception is caught
\* (read_text fails, read_csv raises, iloc is out of bounds)
StationFrame(folder, file) ==
    IF file.state # "ok" THEN <<>>
    ELSE With(read_csv(file.lines), LAMBDA df :
            IF df.raised \/ \E k \in 1..Len(SELECTED) : SELECTED[k] + 1 > df.ncols
            THEN <<>>
            ELSE << [i \in 1..Len(df.rows) |->
                       [k \in 1..Len(SELECTED) |-> df.rows[i][SELECTED[k] + 1]]
                       \o <<[isna |-> FALSE, text |-> folder]>>] >>)

\* all_data after the loop over os.listdir(data_dir), from folder i of order on
RECURSIVE AllData(_, _, _)
AllData(files, order, i) ==
    IF i > Len(order) THEN <<>>
    ELSE StationFrame(order[i], files[order[i]]) \o AllData(files, order, i + 1)

\* whether ^\s*$ matches the text
IsBlank(text) == SpaceRun(text, 1) = Len(text)

\* combined_df.replace(r'^\s*$', pd.NA, regex=True)
ReplaceBlanks(rows) ==
    [i \in 1..Len(rows) |->
        [k \in 1..Len(rows[i]) |->
            IF ~rows[i][k].isna /\ IsBlank(rows[i][k].text) THEN NA ELSE rows[i][k]]]

\* the position of the column of that label, 0 if there is none
ColumnAt(columns, label) == First({k \in 1..Len(columns) : columns[k] = label})

\* combined_df[~mask_identifier_only]: without the rows in which every
\* column but "Station" is missing, where there is a "Station" column
WithoutIdentifierOnly(columns, rows) ==
    IF ColumnAt(columns, "Station") = 0 THEN rows
    ELSE SelectSeq(rows, LAMBDA row :
            \E k \in 1..Len(row) : k # ColumnAt(columns, "Station") /\ ~row[k].isna)

\* combined_df.columns = new_headers, where the number of columns is theirs
Renamed(columns) == IF Len(columns) = Len(new_headers) THEN new_headers ELSE columns

\* pd.to_datetime(text, errors="coerce") is a date, on the texts of
\* CombineLines: month/day/year in digits, of a day the calendar has
IsDateText(text) ==
    With(DigitRun(text, 1), LAMBDA m :
    With(DigitRun(text, m + 2), LAMBDA d :
        /\ m \in {1, 2} /\ At(text, m + 1) = "/"
        /\ d \in {1, 2} /\ At(text, m + d + 2) = "/"
        /\ DigitRun(text, m + d + 3) = 4 /\ Len(text) = m + d + 6
        /\ IntOf(Sub(text, 1, m)) \in 1..12
        /\ IntOf(Sub(text, m + d + 3, m + d + 6)) >= 1
        /\ IntOf(Sub(text, m + 2, m + d + 1)) \in
              1..DaysInMonth(IntOf(Sub(text, 1, m)), IntOf(Sub(text, m + d + 3, m + d + 6)))))

\* combined_df["date_parsed"].notna() for one value of the "date" column
to_datetime_notna(value) == ~value.isna /\ IsDateText(value.text)

\* combined_df[combined_df["date_parsed"].notna()], where there is a "date"
\* column
DateFiltered(columns, rows) ==
    IF ColumnAt(columns, "date") = 0 THEN rows
    ELSE SelectSeq(rows, LAMBDA row : to_datetime_notna(row[ColumnAt(columns, "date")]))

\* combined_df.to_csv(output_path, index=False)
to_csv(columns, rows) ==
    [columns |-> columns,
     rows |-> [i \in 1..Len(rows) |-> [k \in 1..Len(rows[i]) |-> WriteCell(rows[i][k])]]]

\* the cleaning steps with a fault: duplicate rows are not dropped
CleanedWithDuplicates(all_data) ==
    With(WithoutIdentifierOnly(StationColumns, ReplaceBlanks(Concat(all_data))),
         LAMBDA combined_df :
            to_csv(Renamed(StationColumns),
                   DateFiltered(Renamed(StationColumns), combined_df)))

\* the steps from pd.concat to to_csv: the table written from all_data
Cleaned(all_data) ==
    With(drop_duplicates(
             WithoutIdentifierOnly(StationColumns, ReplaceBlanks(Concat(all_data))), 1),
         LAMBDA combined_df :
            to_csv(Renamed(StationColumns),
                   DateFiltered(Renamed(StationColumns), combined_df)))

\* combine_pns_metadata: the file of the run, written where a frame was loaded
combine_pns_metadata(files, order, written) ==
    With(AllData(files, order, 1), LAMBDA all_data :
        IF all_data = <<>> THEN written ELSE Some(Cleaned(all_data)))

InitCombine ==
    /\ \E okx \in {NoFile, Unreadable}
                    \cup {RawText(l) : l \in SeqsUpTo(CombineLines, MaxStationRows)} :
          \E box \in OtherStationFiles :
             raw = [f \in CombineFolders |-> IF f = "OKX" THEN okx ELSE box]
    /\ archive = None
    /\ last = [order |-> <<>>]
    /\ processed = [f \in CombineFolders |-> FALSE]
    /\ input = NoInput
    /\ pc = "start"
    /\ out = NoInput

CombinePnsMetadata ==
    /\ pc = "start"
    /\ \E order \in Orderings(CombineFolders) :
          /\ archive' = combine_pns_metadata(raw, order, archive)
          /\ last' = [order |-> order]
    /\ pc' = "done"
    /\ UNCHANGED <<raw, processed, input, out>>

NextCombine == CombinePnsMetadata

SpecCombine == InitCombine /\ [][NextCombine]_vars

(***************************************************************************)
(* The archive under process_station (Spec).                               *)
(***************************************************************************)
\* the three output files of the key <<date, time>> are all in files
AllThreeIn(files, key) ==
    \A kind \in KINDS : <<kind, key[1], key[2]>> \in DOMAIN files

\* raw_data.csv of s is readable and its bulletin parses to the key <<date, time>>
HasKey(s, key) ==
    /\ raw[s].state = "ok"
    /\ Parse(raw[s].lines) # None
    /\ key = <<Parse(raw[s].lines)[1].issuance_date, Parse(raw[s].lines)[1].issuance_time>>

\* the bulletins of Spec from which no issuance date can be read
UndatedBulletins == {b \in Bulletins : extract_issuance_timestamp(b)[1] = UNKNOWN_DATE}

\* raw_data.csv of s is readable and no issuance date can be read from it
Undated(s) == raw[s].state = "ok" /\ raw[s].lines \in UndatedBulletins

\* C1: when the metadata, observations and header_metadata files of a station
\* all exist for the key of its bulletin, process_station writes nothing: the
\* archive is unchanged and the run ends in the logged skip.
NoWriteWhenOutputsExist ==
    [][\A s \in Stations :
          (/\ ProcessStation(s)
           /\ \E d \in {UNKNOWN_DATE} \cup {n[2] : n \in DOMAIN archive[s]} :
              \E tm \in {n[3] : n \in DOMAIN archive[s]} :
                 HasKey(s, <<d, tm>>) /\ AllThreeIn(archive[s], <<d, tm>>))
          => archive' = archive /\ last'.outcome = "skipped"]_vars

\* a run was skipped over the three existing files of its key
SkippedExistingOutputs ==
    /\ last.outcome = "skipped"
    /\ last.station \in Stations
    /\ HasKey(last.station, last.key)
    /\ AllThreeIn(archive[last.station], last.key)

\* C2: process_station run a second time on the same raw_data.csv leaves the
\* archive as the first run left it and writes no file.
SecondRunWritesNothing ==
    [][\A s \in Stations :
          ProcessStation(s) /\ processed[s]
          => archive' = archive /\ last'.outcome # "saved"]_vars

\* C3: a file of the archive keeps the content its first writer gave it: no
\* later run, whatever its bulletin, replaces or removes it.
FirstWriteWins ==
    [][\A s \in Stations : \A name \in DOMAIN archive[s] :
          name \in DOMAIN archive'[s] /\ archive'[s][name] = archive[s][name]]_vars

\* C4: after a run that wrote (did not skip), the observations, metadata and
\* header_metadata files of its key all exist in the station's archive.
WrittenBulletinHasThreeTables ==
    last.outcome = "saved" => AllThreeIn(archive[last.station], last.key)

\* C5 (as stated): a bulletin with no readable issuance timestamp is archived
\* under the key ("unknown_date", "unknown_time").
UndatedBulletinArchivedUnderSentinel ==
    [][\A s \in Stations :
          ProcessStation(s) /\ Undated(s)
          => \E kind \in KINDS :
                <<kind, UNKNOWN_DATE, UNKNOWN_TIME>> \in DOMAIN archive'[s]]_vars

\* C5 (amended): a bulletin from which no issuance date can be read is rejected
\* by both templates: process_station reports the parse failure and leaves the
\* archive as it was, and no file is ever named after "unknown_date".
UndatedBulletinIsDropped ==
    [][\A s \in Stations :
          ProcessStation(s) /\ Undated(s)
          => /\ archive' = archive
             /\ last'.outcome = "parse_failed"
             /\ \A name \in DOMAIN archive'[s] : name[2] # UNKNOWN_DATE]_vars

\* an undated bulletin went through process_station and was reported as failed
UndatedBulletinDropped ==
    /\ last.outcome = "parse_failed"
    /\ last.station \in Stations
    /\ processed[last.station]
    /\ Undated(last.station)

(***************************************************************************)
(* extract_issuance_timestamp (SpecTimestamp).                             *)
(***************************************************************************)
\* ISSUANCE_PATTERN matches somewhere in line
MatchesIssuance(line) == \E i \in 1..Len(line) : IssuanceMatchesAt(line, i)

\* the index of the first line of lines that matches, 0 when none does
FirstMatching(lines) == First({k \in 1..Len(lines) : MatchesIssuance(lines[k])})

\* s without any of its whitespace
RECURSIVE WithoutWhitespace(_, _)
WithoutWhitespace(s, i) ==
    IF i > Len(s) THEN ""
    ELSE (IF IsSpace(At(s, i)) THEN "" ELSE At(s, i)) \o WithoutWhitespace(s, i + 1)

\* C6: on a list of lines none of which matches the issuance pattern, the
\* empty list included, extract_issuance_timestamp returns exactly
\* ("unknown_date", "unknown_time").
FallbackWhenNoLineMatches ==
    (pc = "done" /\ \A k \in 1..Len(input) : ~MatchesIssuance(input[k]))
    => out = <<"unknown_date", "unknown_time">>

\* the fallback was returned for lines that hold a time or a date but never both
FallbackReturned ==
    /\ pc = "done"
    /\ Len(input) >= 2
    /\ \E k \in 1..Len(input) : input[k] # ""
    /\ \A k \in 1..Len(input) : ~MatchesIssuance(input[k])
    /\ out = <<"unknown_date", "unknown_time">>

\* C7: the result is decided by the first line that matches the issuance
\* pattern: its time token without any whitespace, with the ISO date of its
\* month, day and year or "unknown_date" when these are no calendar date;
\* later lines are not consulted.
FirstMatchDecides ==
    (pc = "done" /\ FirstMatching(input) # 0)
    => \E m \in {IssuanceSearch(input[FirstMatching(input)])} :
          out = <<ParseIssuanceDate(m.month, m.day, m.year), WithoutWhitespace(m.time, 1)>>

(***************************************************************************)
(* The templates (SpecTemplates).                                          *)
(***************************************************************************)
\* C8: a bulletin with the literal **METADATA** in one of its lines, wherever
\* it stands, is rejected by the alternative template, and what
\* apply_parsing_templates returns is the structured template's result.
MarkedIsStructured ==
    (pc = "done" /\ \E k \in 1..Len(input) : Contains(input[k], "**METADATA**"))
    => out.alternative = None /\ out.result = out.structured

\* a bulletin whose marker is not on its first line, parsed by the structured template
MarkedParsedStructured ==
    /\ pc = "done"
    /\ Len(input) >= 2
    /\ ~Contains(input[1], "**METADATA**")
    /\ \E k \in 2..Len(input) : Contains(input[k], "**METADATA**")
    /\ out.alternative = None
    /\ out.result # None
    /\ out.result = out.structured

\* C9 (as stated): a bulletin with the literal **METADATA** in none of its
\* lines is rejected by the structured template and goes to the alternative one.
UnmarkedLinesIsAlternative ==
    (pc = "done" /\ \A k \in 1..Len(input) : ~Contains(input[k], "**METADATA**"))
    => out.structured = None /\ out.result = out.alternative

\* C9 (amended): a bulletin whose lines, joined with nothing between them, do
\* not contain **METADATA (no closing asterisks) is rejected by the structured
\* template, and what apply_parsing_templates returns is the alternative
\* template's result.
UnmarkedTextIsAlternative ==
    (pc = "done" /\ ~Contains(Join(input), "**METADATA"))
    => out.structured = None /\ out.result = out.alternative

\* a bulletin without the marker, parsed by the alternative template
UnmarkedParsedAlternative ==
    /\ pc = "done"
    /\ ~Contains(Join(input), "**METADATA")
    /\ out.structured = None
    /\ out.result # None
    /\ out.result = out.alternative

(***************************************************************************)
(* extract_observations (SpecObservations).                                *)
(***************************************************************************)
\* a row of at least 14 fields whose value field is empty or a number
WellFormed(shape) == shape.n >= 14 /\ shape.value \in {"", " 2"}

\* the indices of the well-formed rows, in input order
WellFormedRows(shapes) ==
    SelectSeq([k \in 1..Len(shapes) |-> k], LAMBDA k : WellFormed(shapes[k]))

\* C10: extract_observations returns one observation for each line of at
\* least 14 well-formed fields, in input order, with that line's fields, and
\* none for a line of fewer than 14 fields.
OneObservationPerWellFormedRow ==
    pc = "done"
    => \E rows \in {WellFormedRows(input.rows)} :
          /\ Len(out) = Len(rows)
          /\ \A i \in 1..Len(rows) :
                /\ out[i].date = DateTag(rows[i])
                /\ out[i].unit = UnitOf(input.rows[rows[i]])
                /\ out[i].description = " 24 hour snowfall"

\* a row of 13 fields, one of them with a comma in quotes, was left out and the
\* well-formed row after it was kept
ShortRowLeftOut ==
    /\ pc = "done"
    /\ Len(input.rows) = 2
    /\ input.rows[1].n = 13 /\ input.rows[1].quoted /\ input.rows[1].value = " 2"
    /\ WellFormed(input.rows[2]) /\ input.rows[2].quoted
    /\ Len(out) = 1
    /\ out[1].date = DateTag(2)

(***************************************************************************)
(* The fields of an observation (SpecRows).                                *)
(***************************************************************************)
\* C11: the line of the end-to-end scenario yields exactly the observation
\* with date "1/19/2025", time "1000 PM", state "CT", county "Fairfield",
\* city "Stamford", latitude 41.02, longitude -73.56, type "SNOW_24",
\* value 2.0, unit "Inch", source "Public", description "24 hour snowfall".
ScenarioRowMapsToCleanFields ==
    (pc = "done" /\ input = <<CLAIM_ROW>>)
    => out = << [date        |-> "1/19/2025",
                 time        |-> "1000 PM",
                 state       |-> "CT",
                 county      |-> "Fairfield",
                 city        |-> "Stamford",
                 latitude    |-> <<[neg |-> FALSE, int |-> "41", frac |-> "02"]>>,
                 longitude   |-> <<[neg |-> TRUE, int |-> "73", frac |-> "56"]>>,
                 type        |-> "SNOW_24",
                 value       |-> <<[neg |-> FALSE, int |-> "2", frac |-> ""]>>,
                 unit        |-> "Inch",
                 source      |-> "Public",
                 description |-> "24 hour snowfall"] >>

\* C12: in every observation, unit, source and description are never the
\* empty string, and each is "UNKNOWN" when its field of the row is empty.
TextDefaultsAreUnknown ==
    pc = "done"
    => /\ \A i \in 1..Len(out) :
             out[i].unit # "" /\ out[i].source # "" /\ out[i].description # ""
       /\ input = <<ROW_NO_TEXT>>
             => /\ Len(out) = 1
                /\ out[1].unit = "UNKNOWN"
                /\ out[1].source = "UNKNOWN"
                /\ out[1].description = "UNKNOWN"

\* s has a lowercase letter
HasLower(s) == \E i \in 1..Len(s) : Contains("abcdefghijklmnopqrstuvwxyz", At(s, i))

\* C13: in every observation, type is never empty, has no leading or trailing
\* whitespace and no lowercase letter, and is "UNKNOWN" for a blank field.
TypeIsNormalized ==
    pc = "done"
    => /\ \A i \in 1..Len(out) :
             /\ out[i].type # ""
             /\ ~IsSpace(At(out[i].type, 1))
             /\ ~IsSpace(At(out[i].type, Len(out[i].type)))
             /\ ~HasLower(out[i].type)
       /\ input = <<ROW_BLANK_TYPE>> => Len(out) = 1 /\ out[1].type = "UNKNOWN"

\* the rows of RowLines with 14 fields and numeric latitude, longitude and value
AcceptableRowLines == {ROW, CLAIM_ROW, ROW_NO_TEXT, ROW_BLANK_TYPE, ROW_LOWER}

\* the rows of RowLines with 14 fields and a numeric column that holds no number
NonNumericRowLines == {ROW_BAD_LAT, ROW_BAD_LON, ROW_BAD_VALUE}

\* the text of line before its first comma
FirstField(line) == Sub(line, 1, NextComma(line, 1) - 1)

\* the dates of the acceptable lines of lines, in order
RECURSIVE AcceptableDates(_)
AcceptableDates(lines) ==
    IF lines = <<>> THEN <<>>
    ELSE (IF Head(lines) \in AcceptableRowLines THEN <<FirstField(Head(lines))>> ELSE <<>>)
         \o AcceptableDates(Tail(lines))

\* C14: a row with non-numeric latitude, longitude or value gives no
\* observation, and every acceptable line before and after it gives its own:
\* the observations are those of the acceptable lines, in input order.
NonNumericRowSkippedAlone ==
    pc = "done" => [i \in 1..Len(out) |-> out[i].date] = AcceptableDates(input)

\* a non-numeric row between two acceptable rows was skipped, the two were kept
NonNumericRowSkipped ==
    /\ pc = "done"
    /\ Len(input) = 3
    /\ input[1] \in AcceptableRowLines
    /\ input[2] \in NonNumericRowLines
    /\ input[3] \in AcceptableRowLines
    /\ Len(out) = 2
    /\ out[1].date = FirstField(input[1])
    /\ out[2].date = FirstField(input[3])

\* C15: the observation list of a bulletin holds no two rows equal in all fields.
NoDuplicateObservations ==
    pc = "done" => \A i, j \in 1..Len(out) : out[i] = out[j] => i = j


(***************************************************************************)
(* Deduplication in parse_pns_data.extract_observations (SpecPns).         *)
(***************************************************************************)
\* the rows parse_pns_data.extract_observations accepts, duplicates included
AcceptedRows(text) == PnsObservations(text, 1, FALSE)

HasDuplicates(rows) == \E i, j \in 1..Len(rows) : i < j /\ rows[i] = rows[j]

\* the position at which the row first appears in rows
FirstSeenAt(rows, row) == First({i \in 1..Len(rows) : rows[i] = row})

\* C16: when the accepted rows hold exact duplicates, the extractor of
\* parse_pns_data returns as many observations as the accepted rows have
\* distinct field-tuples, each of them an accepted row, in the order in which
\* they were first seen.
DedupKeepsFirstSeen ==
    pc = "done" =>
        \E rows \in {AcceptedRows(input)} :
        \E frame \in {DataFrame(rows)} :
            HasDuplicates(rows) =>
                (/\ Len(out) = Cardinality({rows[i] : i \in 1..Len(rows)})
                 /\ \A k \in 1..Len(out) : FirstSeenAt(frame, out[k]) > 0
                 /\ \A k, l \in 1..Len(out) :
                        k < l => FirstSeenAt(frame, out[k]) < FirstSeenAt(frame, out[l]))

\* a row is seen, then another, then the first again: two observations are
\* returned, the repeated one first
DuplicateRowDropped ==
    /\ pc = "done"
    /\ input = <<METADATA, ROW, CLAIM_ROW, ROW>>
    /\ Len(out) = 2
    /\ out[1].date = ":1/19/2025"
    /\ out[2].date = "1/19/2025"


(***************************************************************************)
(* The rows of the alternative table (SpecAlternative).                    *)
(***************************************************************************)
\* the tokens of a line: its trimmed text split at runs of two or more
\* whitespace characters
Tokens(line) == SplitWide(Strip(line))

\* the position of the table header in lines, 0 when there is none
TableHeaderAt(lines) ==
    First({i \in 1..Len(lines) :
              Contains(lines[i], "Location")
              /\ (Contains(lines[i], "Temp") \/ Contains(lines[i], "Amount"))})

CountySeparator(line) == StartsWith(Strip(line), "...") /\ Contains(line, "County")

\* the positions of the lines that may give a row: after the header, not
\* blank, no county separator, as many tokens as the header
DataLinesOf(lines) ==
    {i \in 1..Len(lines) :
        /\ TableHeaderAt(lines) > 0
        /\ i > TableHeaderAt(lines)
        /\ Strip(lines[i]) # ""
        /\ ~CountySeparator(lines[i])
        /\ Len(Tokens(lines[i])) = Len(Tokens(lines[TableHeaderAt(lines)]))}

\* the k-th smallest element of the set S of numbers
RECURSIVE Kth(_, _)
Kth(S, k) ==
    IF k = 1 THEN First(S) ELSE Kth(S \ {First(S)}, k - 1)

\* the rows are the data lines, in order, and no other line gives a row
RowsComeFromDataLines ==
    \E D \in {DataLinesOf(input)} :
        /\ Len(out) = Cardinality(D)
        /\ \A k \in 1..Len(out) :
              \E headers \in {Tokens(input[TableHeaderAt(input)])} :
                  DOMAIN out[k] = {headers[p] : p \in 1..Len(headers)}

\* C17 as stated: every row comes from a data line and maps each header token
\* to the token of that line at the same position; no other line gives a row.
RowMapsEveryHeaderPosition ==
    pc = "done" =>
        (/\ RowsComeFromDataLines
         /\ \E D \in {DataLinesOf(input)} :
            \A k \in 1..Len(out) :
                \E headers \in {Tokens(input[TableHeaderAt(input)])} :
                \E columns \in {Tokens(input[Kth(D, k)])} :
                    \A p \in 1..Len(headers) : out[k][headers[p]] = columns[p])

\* C17: every row comes from a data line and maps each header token to the
\* token of that line at the last position at which the header holds that
\* token; no other line gives a row.
RowMapsLastHeaderPosition ==
    pc = "done" =>
        (/\ RowsComeFromDataLines
         /\ \E D \in {DataLinesOf(input)} :
            \A k \in 1..Len(out) :
                \E headers \in {Tokens(input[TableHeaderAt(input)])} :
                \E columns \in {Tokens(input[Kth(D, k)])} :
                    \A p \in 1..Len(headers) :
                        (\A q \in (p + 1)..Len(headers) : headers[q] # headers[p])
                            => out[k][headers[p]] = columns[p])

\* a header that repeats a token, a row under it, and a line of two tokens
\* that is left out
RepeatedHeaderRow ==
    /\ pc = "done"
    /\ input = <<TABLE_TWICE, TABLE_ROW_TWICE, TWO_TOKENS>>
    /\ Len(out) = 1
    /\ out[1]["Location"] = "Norwalk, CT"
    /\ out[1]["Amount"] = "4.0 in"


(***************************************************************************)
(* Bulletins without a structural anchor (Spec).                           *)
(***************************************************************************)
\* the bulletins of Spec with neither the marker nor a table header line
UnanchoredBulletins ==
    {b \in Bulletins :
        /\ ~Contains(Join(b), "**METADATA")
        /\ \A i \in 1..Len(b) :
              ~(Contains(b[i], "Location")
                /\ (Contains(b[i], "Temp") \/ Contains(b[i], "Amount")))}

\* raw_data.csv of s is readable and its bulletin has no structural anchor
Unanchored(s) == raw[s].state = "ok" /\ raw[s].lines \in UnanchoredBulletins

\* the files of the station hold the bulletin of raw under key: its metadata
\* and an observations table without rows
ArchivedWithoutRows(files, lines, key) ==
    /\ <<"metadata", key[1], key[2]>> \in DOMAIN files
    /\ files[<<"metadata", key[1], key[2]>>] = <<extract_alternative_metadata(lines)>>
    /\ <<"observations", key[1], key[2]>> \in DOMAIN files
    /\ files[<<"observations", key[1], key[2]>>] = <<>>

\* C18 (as stated): a bulletin with neither the marker nor a table header line
\* gives an empty observation list, its metadata is extracted, and it is
\* archived: process_station does not fail, and saves the metadata and the
\* empty observations table unless the files of its key exist already.
UnanchoredBulletinIsArchived ==
    [][\A s \in Stations :
          ProcessStation(s) /\ Unanchored(s)
          => /\ last'.outcome \in {"saved", "skipped"}
             /\ last'.outcome = "saved"
                    => ArchivedWithoutRows(archive'[s], raw[s].lines, last'.key)]_vars

\* C18 (amended): a bulletin with neither the marker nor a table header line,
\* from which an issuance date can be read, gives an empty observation list,
\* its metadata is extracted, and it is archived: process_station does not
\* fail, and saves the metadata and the empty observations table under the
\* bulletin's key unless the three files of that key exist already.
DatedUnanchoredBulletinIsArchived ==
    [][\A s \in Stations :
          ProcessStation(s) /\ Unanchored(s) /\ ~Undated(s)
          => /\ last'.outcome \in {"saved", "skipped"}
             /\ HasKey(s, last'.key)
             /\ last'.outcome = "saved"
                    => ArchivedWithoutRows(archive'[s], raw[s].lines, last'.key)
             /\ last'.outcome = "skipped"
                    => archive' = archive /\ AllThreeIn(archive[s], last'.key)]_vars

\* a dated bulletin without anchor went through process_station and its empty
\* observations table was saved
UnanchoredBulletinSaved ==
    /\ last.outcome = "saved"
    /\ last.station \in Stations
    /\ processed[last.station]
    /\ Unanchored(last.station)
    /\ ~Undated(last.station)
    /\ ArchivedWithoutRows(archive[last.station], raw[last.station].lines, last.key)


(***************************************************************************)
(* extract_header_metadata (SpecHeader).                                   *)
(***************************************************************************)
\* the position of the first line that contains the title, 0 when none does
TitleAt(lines) ==
    First({i \in 1..Len(lines) : Contains(lines[i], "Public Information Statement")})

\* C19: extract_header_metadata returns the lines strictly before the first
\* line that contains "Public Information Statement", each trimmed, in their
\* order; when no line contains it, every line is returned (trimmed).
HeaderIsLinesBeforeTitle ==
    pc = "done" =>
        \E n \in {IF TitleAt(input) = 0 THEN Len(input) ELSE TitleAt(input) - 1} :
            out = [i \in 1..n |-> Strip(input[i])]

\* a padded line before a line that holds the title inside other text: the
\* line is returned trimmed and nothing from the title on
HeaderCutAtTitle ==
    /\ pc = "done"
    /\ input = <<NOUS_PADDED, TITLE_INSIDE, "000">>
    /\ out = <<"NOUS41 KOKX 031331">>

\* no line holds the title (its lowercase spelling does not count): every
\* line is returned
HeaderWithoutTitle ==
    /\ pc = "done"
    /\ input = <<"000", TITLE_LOWER, "">>
    /\ out = <<"000", TITLE_LOWER, "">>


(***************************************************************************)
(* Metadata degrades field by field (SpecMetadata).                        *)
(***************************************************************************)
StructuredFields ==
    {"issuance_code", "region_codes", "timestamp", "public_info", "nws_office", "nws_time"}

AlternativeFields == {"issuance_code", "nws_office", "nws_time", "product"}

\* some line of lines satisfies P
SomeLine(lines, P(_)) == \E i \in 1..Len(lines) : P(lines[i])

\* the record of extract_metadata: a field whose pattern matches nowhere is
\* null, and a field whose pattern matches has its value whatever the others
StructuredDegrades(lines, md) ==
    /\ DOMAIN md = StructuredFields
    /\ (lines = <<>> \/ NousSearch(lines[1]) = None) <=> md.issuance_code = None
    /\ (lines = <<>> \/ CtzSearch(lines[1]) = None) <=> md.region_codes = None
    /\ (lines = <<>> \/ SixDigitSearch(lines[1]) = None) => md.timestamp = None
    /\ ~SomeLine(lines, LAMBDA l : Contains(l, "Public Information Statement"))
           <=> md.public_info = None
    /\ ~SomeLine(lines, LAMBDA l : Contains(l, "National Weather Service"))
           => md.nws_office = None
    /\ (lines # <<>> /\ Contains(lines[Len(lines)], "National Weather Service"))
           => md.nws_office = None
    /\ ~SomeLine(lines, LAMBDA l : NwsTimeMatch(l)) <=> md.nws_time = None

\* the record of extract_alternative_metadata, likewise
AlternativeDegrades(lines, md) ==
    /\ DOMAIN md = AlternativeFields
    /\ ~SomeLine(lines, LAMBDA l : StartsWith(l, "NOUS")) <=> md.issuance_code = None
    /\ ~SomeLine(lines, LAMBDA l : StartsWith(l, "NOUS")) => md.product = None
    /\ ~SomeLine(lines, LAMBDA l : StartsWith(l, "National Weather Service"))
           <=> md.nws_office = None
    /\ ~SomeLine(lines, LAMBDA l : StartsWith(l, "National Weather Service"))
           => md.nws_time = None
    /\ (lines # <<>> /\ StartsWith(lines[Len(lines)], "National Weather Service")
        /\ \A i \in 1..(Len(lines) - 1) : ~StartsWith(lines[i], "National Weather Service"))
           => md.nws_time = None

\* C20: on every list of lines, the empty list and a list that ends with the
\* office line included, extract_metadata and extract_alternative_metadata
\* return their record (nothing is raised); each field whose pattern is absent
\* is null, and the fields whose pattern is present are set all the same.
MetadataDegradesFieldByField ==
    /\ pc = "structured" => StructuredDegrades(input, out)
    /\ pc = "alternative" => AlternativeDegrades(input, out)

\* extract_metadata on a list that ends with the office line: the office is
\* null and the fields of the first line are set
OfficeLineLast ==
    /\ pc = "structured"
    /\ input = <<NOUS_FULL, TITLE, NWS_LINE>>
    /\ out.nws_office = None
    /\ out.issuance_code = Some("NOUS41 KOKX")
    /\ out.timestamp = Some("2025-02-03")
    /\ out.public_info = Some(TITLE)

\* extract_alternative_metadata on the empty list: every field is null
AlternativeOfNoLines ==
    /\ pc = "alternative"
    /\ input = <<>>
    /\ \A f \in AlternativeFields : out[f] = None


(***************************************************************************)
(* One metadata schema for both formats (SpecMetadata).                    *)
(***************************************************************************)
\* C21: the metadata record of a bulletin has the fields issuance_code,
\* region_codes, timestamp, public_info, nws_office and nws_time, and each
\* field means the same (is the same function of the bulletin's lines)
\* whether the structured or the alternative extractor produced it.
MetadataSchemaIsShared ==
    pc \in {"structured", "alternative"} =>
        (/\ DOMAIN out = StructuredFields
         /\ \A f \in StructuredFields : out[f] = extract_metadata(input)[f])


(***************************************************************************)
(* A failing station does not stop the run (SpecRun).                      *)
(***************************************************************************)
StationFailures == {"no_input", "read_error", "parse_failed"}

\* C22: a station whose input file is missing or unreadable, or whose
\* bulletin no template parses, is logged and skipped, and nothing else is:
\* at every moment the stations logged so far followed by the stations still
\* to visit are the stations of the list, a failure changes no archive, and
\* when the run is done every station of the list has been processed.
FailureSkipsOnlyThatStation ==
    /\ pc \in {"loop", "done"} => [k \in 1..Len(out) |-> out[k].station] \o input = last
    /\ pc = "done" => \A k \in 1..Len(last) : processed[last[k]]
    /\ \A k \in 1..Len(out) :
          out[k].outcome \in StationFailures => archive[out[k].station] = <<>>

\* a run in which the first station failed and the next one was saved
FailedStationThenSaved ==
    /\ pc = "done"
    /\ Len(out) = 2
    /\ out[1].outcome \in StationFailures
    /\ out[2].outcome = "saved"
    /\ archive[out[2].station] # <<>>


(***************************************************************************)
(* The master table (SpecAccumulate).                                      *)
(***************************************************************************)
\* the rows of the file called name in dir, none when there is no such file
RowsOf(dir, name) ==
    IF name \in DOMAIN dir THEN {dir[name].rows[k] : k \in 1..Len(dir[name].rows)} ELSE {}

\* the rows of the file called name in dir that read_csv can deliver
ReadableRowsOf(dir, name) ==
    IF name \in DOMAIN dir /\ dir[name].readable THEN RowsOf(dir, name) ELSE {}

NoEqualRows(dir, name) ==
    name \in DOMAIN dir =>
        \A i, j \in 1..Len(dir[name].rows) : dir[name].rows[i] = dir[name].rows[j] => i = j

\* a run of accumulate_all_data
AccumulationRun == last'.run # last.run

MasterIsAppendOnly ==
    [][AccumulationRun =>
          RowsOf(archive, MASTER_FILE) \subseteq RowsOf(archive', MASTER_FILE)]_vars


(***************************************************************************)
(* The order of the stages (SpecPipeline).                                 *)
(***************************************************************************)
StageOrder ==
    << "1_scraper.py", "2_parser.py", "3_combine_stations.py", "4_combine_dates.py",
       "5_snow_map.py", "6_auto_update_git.py" >>

AccumulationStages == {"3_combine_stations.py", "4_combine_dates.py"}

\* the script that is running, "" when none is
Running == IF pc = "in_stage" THEN scripts[input] ELSE ""

\* C25: the stages run in the order scraper, parser, combine-stations,
\* combine-dates, map, git-publish; a stage runs only when every stage before
\* it has ended with success, so an accumulation stage runs only when the
\* parser has handled every station of the cycle; and after a stage that
\* failed no stage runs.
StagesRunInOrder ==
    /\ \A k \in 1..Len(out) : out[k].script = StageOrder[k]
    /\ pc = "in_stage" =>
          /\ Running = StageOrder[Len(out) + 1]
          /\ \A k \in 1..Len(out) : out[k].returncode = 0
    /\ Running \in AccumulationStages => \A s \in RunStations : archive[s] # "pending"
    /\ \A k \in 1..Len(out) :
          out[k].returncode # 0 => k = Len(out) /\ pc = "exited"

\* the parser failed after handling one station: the run has ended and no
\* later stage was started
ParserFailureEndsRun ==
    /\ pc = "exited"
    /\ Len(out) = 2
    /\ out[2].returncode # 0
    /\ \E s \in RunStations : archive[s] = "pending"

\* all six stages have run
AllStagesRan ==
    /\ pc = "finished"
    /\ Len(out) = 6


(***************************************************************************)
(* Stations side by side (SpecParallel).                                   *)
(***************************************************************************)
\* the archive after process_station was run for the stations of order, one
\* after the other, from the archive files
RECURSIVE OneAfterTheOther(_, _, _)
OneAfterTheOther(files, order, i) ==
    IF i > Len(order) THEN files
    ELSE OneAfterTheOther(
             [files EXCEPT ![order[i]] = process_station(raw[order[i]], files[order[i]]).files],
             order, i + 1)

BothDone == \A s \in ParallelStations : processed[s] = "done"

SkippedBesideSaved ==
    /\ BothDone
    /\ \E s, t \in ParallelStations :
          /\ raw[s] = RawText(WITH_HEADER)
          /\ last[s] = EarlierFilesWithHeader
          /\ archive[s] = last[s]
          /\ archive[t] # last[t]


(***************************************************************************)
(* fetch_page (SpecFetch).                                                 *)
(***************************************************************************)
\* the station has a URL in the station lookup
HasUrl(station) == station \in DOMAIN StationUrls /\ StationUrls[station] # ""

\* C27: for a station without URL in the station lookup fetch_page returns
\* None and issues no HTTP request; when the server answers 404 it returns
\* None.
NoUrlOrNotFoundGivesNone ==
    pc = "done" =>
        (/\ ~HasUrl(input.station)
               => out.returned = None /\ out.raised = "" /\ out.requests = 0
         /\ (HasUrl(input.station) /\ input.server.kind = "answers"
             /\ input.server.status = 404)
               => out.returned = None /\ out.raised = "" /\ out.requests = 1)

\* a station that is not in the lookup was asked for
UnknownStationFetched ==
    /\ pc = "done"
    /\ input.station = "INVALID"
    /\ out.returned = None
    /\ out.requests = 0

\* the server answered 404 for a station of the lookup
NotFoundFetched ==
    /\ pc = "done"
    /\ input.station = "CAR"
    /\ input.server.kind = "answers"
    /\ input.server.status = 404
    /\ out.returned = None

\* C28: when the HTTP request raises an exception, a timeout or any other,
\* fetch_page returns None and raises nothing.
RequestExceptionGivesNone ==
    pc = "done" =>
        ((HasUrl(input.station) /\ input.server.kind = "raises")
            => out.returned = None /\ out.raised = "")


(***************************************************************************)
(* scrape_all_pns (SpecScrape).                                            *)
(***************************************************************************)
\* the report cells of the file, none while it does not exist
CellsOf(file) == IF file = None THEN <<>> ELSE file[1]

\* no report text stands in two cells
NoRepeatedText(cells) ==
    \A i, j \in 1..Len(cells) : cells[i] = cells[j] => i = j

\* the latest step was a run of scrape_all_pns
ScrapeRun == last'.run # last.run

\* every report of the file is still in its place after a run
ExistingReportsKeptInPlace ==
    [][ScrapeRun =>
          /\ Len(CellsOf(archive')) >= Len(CellsOf(archive))
          /\ \A i \in 1..Len(CellsOf(archive)) : CellsOf(archive')[i] = CellsOf(archive)[i]]_vars

\* a run appends the reports it collected and nothing else, and none of them
\* stood in the file as a text
AppendedReportsWereNew ==
    [][ScrapeRun =>
          /\ CellsOf(archive') = CellsOf(archive) \o out'
          /\ \A k \in 1..Len(out') :
                out'[k] # "" => \A i \in 1..Len(CellsOf(archive)) : CellsOf(archive)[i] # out'[k]]_vars

\* C29: scrape_all_pns keeps every report of pns_reports.csv in its place,
\* appends a scraped report only if its text is not in the file, and so a file
\* without a repeated report text before a run has none after it
ScrapeAddsOnlyNewReports ==
    [][ScrapeRun =>
          /\ Len(CellsOf(archive')) >= Len(CellsOf(archive))
          /\ \A i \in 1..Len(CellsOf(archive)) : CellsOf(archive')[i] = CellsOf(archive)[i]
          /\ \A k \in (Len(CellsOf(archive)) + 1)..Len(CellsOf(archive')) :
                \A i \in 1..Len(CellsOf(archive)) : CellsOf(archive)[i] # CellsOf(archive')[k]
          /\ NoRepeatedText(CellsOf(archive)) => NoRepeatedText(CellsOf(archive'))]_vars

\* a run found the same new text twice and appended it twice
SameReportScrapedTwice ==
    /\ last.run = 1
    /\ NoRepeatedText(CellsOf(last.before))
    /\ \E i, j \in 1..Len(out) : i # j /\ out[i] = out[j] /\ out[i] # ""


(***************************************************************************)
(* The combined table of all stations (SpecCombine).                       *)
(***************************************************************************)
\* the written table has the column of that label, and the cell under it
HasColumn(table, label) == ColumnAt(table.columns, label) # 0
CellUnder(table, row, label) == row[ColumnAt(table.columns, label)]

\* no two rows of the written table are equal in every cell
NoIdenticalRows(table) ==
    \A i, j \in 1..Len(table.rows) : table.rows[i] = table.rows[j] => i = j

\* no row of the written table is empty in every column but Station
NoIdentifierOnlyRow(table) ==
    \A i \in 1..Len(table.rows) :
        \E k \in 1..Len(table.columns) :
            table.columns[k] # "Station" /\ table.rows[i][k] # ""

\* every row of the written table has a date that parses
EveryDateParses(table) ==
    /\ HasColumn(table, "date")
    /\ \A i \in 1..Len(table.rows) :
          to_datetime_notna(ReadCell(CellUnder(table, table.rows[i], "date")))

\* C30: the table combine_pns_metadata writes holds no two identical rows, no
\* row in which every column other than Station is missing, and no row whose
\* date does not parse as a date
CombinedTableIsClean ==
    (pc = "done" /\ archive # None) =>
        /\ NoIdenticalRows(archive[1])
        /\ NoIdentifierOnlyRow(archive[1])
        /\ EveryDateParses(archive[1])

\* the run loaded two rows alike in every selected column, an identifier-only
\* row and a note, and wrote the one observation of each station
CombinedFromUncleanFiles ==
    /\ pc = "done"
    /\ raw["OKX"] = RawText(<<CLAIM_ROW, GAP_ROW>>)
    /\ raw["BOX"] = RawText(<<CLAIM_ROW, BLANK_ROW, NOTE_ROW>>)
    /\ archive # None
    /\ Len(archive[1].rows) = 2

\* the run loaded metadata rows as the bulletins hold them, with the leading
\* colon, and wrote a table without a row
CombinedFromBulletinRows ==
    /\ pc = "done"
    /\ raw["OKX"] = RawText(<<ROW, ROW>>)
    /\ raw["BOX"] = NoFile
    /\ archive # None
    /\ archive[1].rows = <<>>

=============================================================================
